---- MODULE Spec2Model ----
(***************************************************************************)
(* The search index of claw-kit (kit/search): the markdown chunker, the    *)
(* SQLite store with its FTS5 index kept by triggers, the indexer (full    *)
(* scan, session ingestion, full reindex, watcher flush, embedding pass)   *)
(* and the lexical search.                                                 *)
(*                                                                         *)
(* A document is the sequence of its lines (content.split('\n')); a line   *)
(* is a string whose length, heading/blank classification and index terms  *)
(* are given by the tables below. Timestamps (mtime, indexed_at,           *)
(* updated_at) are left out of the rows: nothing in the code reads them    *)
(* back except getStats().lastIndexed.                                     *)
(***************************************************************************)
EXTENDS Integers, Sequences, FiniteSets, TLC

(***************************************************************************)
(* Bounds of the model.                                                    *)
(***************************************************************************)
\* largest chunk id AUTOINCREMENT may hand out in a run
MaxId == 3
\* most entries logSession appends to the transcript of the day
MaxEntries == 2
\* most lines of a document handed to the chunker on its own
MaxLines == 6
\* most pieces (words and runs of whitespace) of a query
MaxQuery == 3
\* largest raw score (rank * -1) the full-text engine hands out
MaxRaw == 2
\* most full batches of chunks an embedding pass finds
MaxBatches == 2
\* the callers of embed and embedBatch in the process
MaxCallers == 3
\* most warnings about the missing provider that are counted
MaxWarnings == 2

\* the delay of the debounce timer, in seconds
DebounceSeconds == 2

(***************************************************************************)
(* Lines and documents.                                                    *)
(***************************************************************************)
NUL == "\\0"

HeadingLines == {"# Alpha", "## Beta"}
BlankLines == {"", " "}

\* line.length
LineLength(l) ==
  CASE l = "" -> 0
    [] l = " " -> 1
    [] l = NUL -> 1
    [] l = "# Alpha" -> 7
    [] l = "## Beta" -> 7
    [] l = "apple pie" -> 9
    [] l = "lorem ipsum (500 characters)" -> 500
    [] l = "banana pie" -> 10
    [] l = "{e1 hello}" -> 10
    [] l = "{e2 world}" -> 10
    [] l = "{e3 again}" -> 10
    [] OTHER -> 5

\* /^#{1,6}\s/.test(line)
IsHeading(l) == l \in HeadingLines

\* line.trim() === ''
IsBlank(l) == l \in BlankLines

\* the terms the FTS5 tokenizer (porter unicode61) extracts from a line
Tokens(l) ==
  CASE l = "# Alpha" -> {"alpha"}
    [] l = "## Beta" -> {"beta"}
    [] l = "apple pie" -> {"appl", "pie"}
    [] l = "lorem ipsum (500 characters)" -> {"lorem", "ipsum"}
    [] l = "banana pie" -> {"banana", "pie"}
    [] l = "{e1 hello}" -> {"e1", "hello"}
    [] l = "{e2 world}" -> {"e2", "world"}
    [] l = "{e3 again}" -> {"e3", "again"}
    [] OTHER -> {}

Terms == {"alpha", "beta", "appl", "pie", "banana", "hello", "world"}

DocEmpty == <<"">>
DocBlank == <<" ", "">>
DocA == <<"# Alpha", "apple pie">>
DocB == <<"# Alpha", "apple pie", "## Beta", "banana pie">>
DocBin == <<"# Alpha", NUL>>

MemoryDocs == {DocBlank, DocA, DocB, DocBin}

\* the lines of the documents the chunker is run on: a heading, a long
\* paragraph, a blank line and a short paragraph
ChunkLines == {"# Alpha", "lorem ipsum (500 characters)", "", "apple pie"}

\* every document of at most MaxLines such lines
ChunkDocs == UNION {[1..n -> ChunkLines] : n \in 1..MaxLines}

NoFile == <<>>

MdPaths == {"a.md", "b.md"}
SessionPath == "sessions/d1.jsonl"
Paths == MdPaths \cup {SessionPath}

\* what an editor leaves in a memory file of the model: a.md is a note that
\* is a text of one or two sections or binary, b.md an empty note
Editable(p) == IF p = "a.md" THEN {DocA, DocB, DocBin} ELSE {DocBlank}

\* the line logSession appends as the k-th entry of the day
Entry(k) == CASE k = 1 -> "{e1 hello}" [] k = 2 -> "{e2 world}" [] OTHER -> "{e3 again}"

(***************************************************************************)
(* Hashing: createHash('sha256').update(x).digest('hex').slice(0, n).      *)
(* The digest is represented by its preimage and the kept length, i.e.     *)
(* SHA-256 is taken to be collision free on the documents of the model.    *)
(***************************************************************************)
sha256(x, n) == [digest |-> x, hexlen |-> n]

RECURSIVE ByteLength(_)
\* content.length of lines.join('\n')
ByteLength(lines) ==
  IF Len(lines) = 0 THEN 0
  ELSE IF Len(lines) = 1 THEN LineLength(lines[1])
  ELSE LineLength(lines[1]) + 1 + ByteLength(Tail(lines))

(***************************************************************************)
(* The chunker (chunker.ts).                                               *)
(***************************************************************************)
TARGET_CHUNK_SIZE == 800

RECURSIVE TrimStart(_)
TrimStart(lines) ==
  IF Len(lines) = 0 THEN lines
  ELSE IF IsBlank(lines[1]) THEN TrimStart(Tail(lines))
  ELSE lines

RECURSIVE TrimEnd(_)
TrimEnd(lines) ==
  IF Len(lines) = 0 THEN lines
  ELSE IF IsBlank(lines[Len(lines)]) THEN TrimEnd(SubSeq(lines, 1, Len(lines) - 1))
  ELSE lines

\* lines.join('\n').trim(): the blank lines at both ends go
Trim(lines) == TrimEnd(TrimStart(lines))

\* the chunk buildChunk returns for a trimmed text, or nothing when it is empty
ChunkOf(text, startLine, endLine) ==
  IF Len(text) = 0 THEN <<>>
  ELSE << [text |-> text, startLine |-> startLine, endLine |-> endLine,
           hash |-> sha256(text, 16)] >>

buildChunk(lines, startLine, endLine) == ChunkOf(Trim(lines), startLine, endLine)

Abs(n) == IF n < 0 THEN 0 - n ELSE n

RECURSIVE findSplitFrom(_, _, _, _, _)
\* the loop of findSplitPoint; i is the 0-based index of the code
findSplitFrom(lines, i, target, bestIndex, bestDistance) ==
  IF i >= Len(lines) THEN bestIndex
  ELSE IF IsBlank(lines[i + 1]) /\ (bestIndex = -1 \/ Abs(i - target) < bestDistance)
       THEN findSplitFrom(lines, i + 1, target, i, Abs(i - target))
       ELSE findSplitFrom(lines, i + 1, target, bestIndex, bestDistance)

\* findSplitPoint with the bug of cutting at 60% of the lines whatever the
\* line there is
findSplitPointMid(lines) == (Len(lines) * 6) \div 10

findSplitPoint(lines) ==
  findSplitFrom(lines, (Len(lines) * 3) \div 10, (Len(lines) * 6) \div 10, -1, 0)

\* the state of the loop of chunkMarkdown before the first line
ChunkerStart ==
  [chunks |-> <<>>, currentHeading |-> "", currentLines |-> <<>>,
   currentStartLine |-> 1, currentSize |-> 0]

\* the heading branch with the bug of not flushing what is pending
HeadingStepKeeps(s, line, lineNum) ==
  IF ~IsHeading(line) THEN s ELSE [s EXCEPT !.currentHeading = line]

\* the heading branch of the loop body: flush what is pending, note the heading
HeadingStep(s, line, lineNum) ==
  IF ~IsHeading(line) THEN s
  ELSE IF Len(s.currentLines) > 0 /\ s.currentSize > 0
       THEN [s EXCEPT !.chunks = @ \o buildChunk(s.currentLines, s.currentStartLine, lineNum - 1),
                      !.currentLines = <<>>,
                      !.currentSize = 0,
                      !.currentStartLine = lineNum,
                      !.currentHeading = line]
       ELSE [s EXCEPT !.currentHeading = line]

\* currentLines.push(line); currentSize += line.length + 1
PushLine(s, line) ==
  [s EXCEPT !.currentLines = Append(@, line), !.currentSize = @ + LineLength(line) + 1]

RECURSIVE SizeOf(_)
\* the size the code adds up for a run of lines: length + 1 each
SizeOf(lines) ==
  IF Len(lines) = 0 THEN 0 ELSE LineLength(lines[1]) + 1 + SizeOf(Tail(lines))

\* the heading context the new chunk starts with
HeadingContext(currentHeading, remainder) ==
  IF currentHeading # "" /\ Len(remainder) > 0 /\ ~IsHeading(remainder[1])
  THEN <<currentHeading>> ELSE <<>>

\* the new pending chunk after a split
Refill(s, lines) == [s EXCEPT !.currentLines = lines, !.currentSize = SizeOf(lines)]

\* the split at the blank line splitIndex of the pending lines, if it is a
\* good split point
SplitAt(s, splitIndex) ==
  IF ~(splitIndex > 0 /\ splitIndex < Len(s.currentLines) - 1) THEN s
  ELSE Refill([s EXCEPT !.chunks = @ \o buildChunk(SubSeq(s.currentLines, 1, splitIndex + 1),
                                                    s.currentStartLine,
                                                    s.currentStartLine + splitIndex),
                        !.currentStartLine = @ + splitIndex + 1],
              HeadingContext(s.currentHeading,
                             SubSeq(s.currentLines, splitIndex + 2, Len(s.currentLines)))
                \o SubSeq(s.currentLines, splitIndex + 2, Len(s.currentLines)))

\* the split branch of the loop body
SplitStep(s) ==
  IF s.currentSize < TARGET_CHUNK_SIZE THEN s
  ELSE SplitAt(s, findSplitPoint(s.currentLines))

\* one iteration of the loop over the lines
ChunkerStep(s, line, lineNum) == SplitStep(PushLine(HeadingStep(s, line, lineNum), line))

RECURSIVE ChunkerLoop(_, _, _)
ChunkerLoop(s, lines, i) ==
  IF i > Len(lines) THEN s
  ELSE ChunkerLoop(ChunkerStep(s, lines[i], i), lines, i + 1)

\* content.trim().length === 0
IsWhitespaceOnly(lines) == \A i \in 1..Len(lines) : IsBlank(lines[i])

\* chunkMarkdown with the bug of returning without the flush of what is
\* pending after the last line
FlushRemainingForgets(s, lineCount) == s.chunks

\* the flush of what is pending after the last line
FlushRemaining(s, lineCount) ==
  IF Len(s.currentLines) > 0
  THEN s.chunks \o buildChunk(s.currentLines, s.currentStartLine, lineCount)
  ELSE s.chunks

chunkMarkdown(content) ==
  IF IsWhitespaceOnly(content) THEN <<>>
  ELSE FlushRemaining(ChunkerLoop(ChunkerStart, content, 1), Len(content))

(***************************************************************************)
(* The store (db.ts). db is the committed content of the SQLite file:      *)
(*   files       rows [path, source, hash, size], primary key path         *)
(*   chunks      rows [id, path, source, startLine, endLine, text, hash]   *)
(*   chunks_fts  the entries [rowid, text] of the full-text index          *)
(*   vectors     rows [chunk_id, embedding]                                *)
(*   seq         sqlite_sequence of chunks: the largest id ever assigned   *)
(*   hasVectors  whether the vectors table has been created                *)
(***************************************************************************)
EmptyDb ==
  [files |-> {}, chunks |-> {}, chunks_fts |-> {}, vectors |-> {},
   seq |-> 0, hasVectors |-> FALSE]

FtsEntry(c) == [rowid |-> c.id, text |-> c.text]

\* vectors.chunk_id REFERENCES chunks(id) ON DELETE CASCADE
VectorsCascade(vectors, deleted) ==
  {v \in vectors : \A c \in deleted : v.chunk_id # c.id}

\* the vectors table without its foreign key
VectorForeignKeyOff(d, chunkId) == TRUE

\* the foreign key of vectors, checked when a vector row is written
VectorForeignKeyOk(d, chunkId) == \E c \in d.chunks : c.id = chunkId

\* DeleteChunkRows with the bug of a missing chunks_ad trigger
DeleteChunkRowsNoTrigger(d, rows) ==
  [d EXCEPT !.chunks = @ \ rows,
            !.vectors = VectorsCascade(@, rows)]

\* DELETE FROM chunks WHERE ...: trigger chunks_ad drops the FTS entries,
\* the foreign key of vectors drops the vectors
DeleteChunkRows(d, rows) ==
  [d EXCEPT !.chunks = @ \ rows,
            !.chunks_fts = @ \ {FtsEntry(c) : c \in rows},
            !.vectors = VectorsCascade(@, rows)]

\* DELETE FROM files WHERE ...: chunks.path REFERENCES files(path) ON DELETE CASCADE
DeleteFileRows(d, rows) ==
  [DeleteChunkRows(d, {k \in d.chunks : \E f \in rows : k.path = f.path})
     EXCEPT !.files = @ \ rows]

\* the statement with the bug of writing no File row
InsertFileSkipped(d, row) == d

\* INSERT INTO files
InsertFile(d, row) == [d EXCEPT !.files = @ \cup {row}]

\* INSERT INTO chunks: AUTOINCREMENT id, trigger chunks_ai adds the FTS entry
InsertChunkRow(d, row) ==
  [d EXCEPT !.chunks = @ \cup {row},
            !.chunks_fts = @ \cup {FtsEntry(row)},
            !.seq = @ + 1]

\* InsertChunk with the bug of a key without AUTOINCREMENT: the id after the
\* largest id in the table
InsertChunkRowid(d, relPath, source, chunk) ==
  InsertChunkRow(d, [id |-> IF d.chunks = {} THEN 1
                            ELSE 1 + CHOOSE m \in {c.id : c \in d.chunks} :
                                       \A c \in d.chunks : c.id <= m,
                     path |-> relPath, source |-> source,
                     startLine |-> chunk.startLine, endLine |-> chunk.endLine,
                     text |-> chunk.text, hash |-> chunk.hash])

InsertChunk(d, relPath, source, chunk) ==
  InsertChunkRow(d, [id |-> d.seq + 1, path |-> relPath, source |-> source,
                     startLine |-> chunk.startLine, endLine |-> chunk.endLine,
                     text |-> chunk.text, hash |-> chunk.hash])

RECURSIVE InsertChunks(_, _, _, _)
InsertChunks(d, relPath, source, chunks) ==
  IF Len(chunks) = 0 THEN d
  ELSE InsertChunks(InsertChunk(d, relPath, source, chunks[1]), relPath, source, Tail(chunks))

\* INSERT INTO chunks_fts(chunks_fts) VALUES ('rebuild')
FtsRebuild(d) == [d EXCEPT !.chunks_fts = {FtsEntry(c) : c \in d.chunks}]

FileRow(d, path) == {f \in d.files : f.path = path}
ChunkRows(d, path) == {c \in d.chunks : c.path = path}

(***************************************************************************)
(* The indexer (indexer.ts).                                               *)
(***************************************************************************)
\* where a statement of the indexFile transaction may fail: 0 nowhere,
\* 1 the chunk delete, 2 the file delete, 3 the chunking or the file insert,
\* 4 the first chunk insert, 5 a later chunk insert
TxFailPoints == 0..5

\* DELETE FROM chunks WHERE path = ?
DeleteChunksOf(d, relPath) == DeleteChunkRows(d, ChunkRows(d, relPath))

\* DELETE FROM files WHERE path = ?
DeleteFileOf(d, relPath) == DeleteFileRows(d, FileRow(d, relPath))

\* removeFile with the bug of leaving the File row
removeFileKeepsRow(d, relPath) == DeleteChunksOf(d, relPath)

removeFile(d, relPath) == DeleteFileOf(DeleteChunksOf(d, relPath), relPath)

FileRecord(relPath, source, hash, size) ==
  [path |-> relPath, source |-> source, hash |-> hash, size |-> size]

\* indexFileBody with the bug of replacing the file row and leaving the
\* chunk rows of the previous version in place
indexFileBodyKeepsOld(d, relPath, source, content, hash, size, failAt) ==
  IF failAt = 0
  THEN InsertChunks(InsertFile([d EXCEPT !.files = @ \ FileRow(d, relPath)],
                               FileRecord(relPath, source, hash, size)),
                    relPath, source, chunkMarkdown(content))
  ELSE d

\* the statements of the indexFile transaction, as far as failAt lets them run
indexFileBody(d, relPath, source, content, hash, size, failAt) ==
  CASE failAt = 0 ->
         InsertChunks(InsertFile(removeFile(d, relPath), FileRecord(relPath, source, hash, size)),
                      relPath, source, chunkMarkdown(content))
    [] failAt = 1 -> d
    [] failAt = 2 -> DeleteChunksOf(d, relPath)
    [] failAt = 3 -> removeFile(d, relPath)
    [] failAt = 4 -> InsertFile(removeFile(d, relPath), FileRecord(relPath, source, hash, size))
    [] OTHER ->
         InsertChunks(InsertFile(removeFile(d, relPath), FileRecord(relPath, source, hash, size)),
                      relPath, source, SubSeq(chunkMarkdown(content), 1, 1))

\* indexFile with the bug of running the statements outside a transaction:
\* what ran before the failure stays
indexFileNoRollback(d, relPath, source, content, hash, size, failAt) ==
  [db |-> indexFileBody(d, relPath, source, content, hash, size, failAt),
   threw |-> failAt # 0]

\* indexFile: db.transaction commits the body, or rolls back and rethrows
indexFile(d, relPath, source, content, hash, size, failAt) ==
  IF failAt = 0
  THEN [db |-> indexFileBody(d, relPath, source, content, hash, size, 0), threw |-> FALSE]
  ELSE [db |-> d, threw |-> TRUE]

RECURSIVE NulOffset(_, _)
\* the offset of the first NUL character of the content, or -1
NulOffset(lines, offset) ==
  IF Len(lines) = 0 THEN -1
  ELSE IF lines[1] = NUL THEN offset
  ELSE NulOffset(Tail(lines), offset + LineLength(lines[1]) + 1)

\* sample.includes('\0') for the sample content.slice(0, 8192)
InSample(at) == at >= 0 /\ at < 8192

isBinary(content) == InSample(NulOffset(content, 0))

\* the hash check with the bug of skipping every path that has a File row
SameHashAnyRow(d, relPath, hash) == FileRow(d, relPath) # {}

\* existing && existing.hash === hash
SameHash(d, relPath, hash) ==
  FileRow(d, relPath) # {} /\ (\A f \in FileRow(d, relPath) : f.hash = hash)

\* what the caller of indexFile makes of its return or its exception
Indexed(r) == [db |-> r.db, outcome |-> IF r.threw THEN "failed" ELSE "indexed"]

\* the hash-diff-and-replace of one file whose content was read: shared by
\* the scan and the flush; the outcome is "binary", "skipped", "indexed" or
\* "failed"
SyncFile(d, relPath, content, failAt) ==
  IF isBinary(content) THEN [db |-> d, outcome |-> "binary"]
  ELSE IF SameHash(d, relPath, sha256(content, 32)) THEN [db |-> d, outcome |-> "skipped"]
  ELSE Indexed(indexFile(d, relPath, "memory", content, sha256(content, 32),
                         ByteLength(content), failAt))

\* the order in which glob.sync lists the files
MdOrder == <<"a.md", "b.md">>

\* what can go wrong with one file of a pass: 0 nothing, 1 readFileSync or
\* statSync throws, 2..6 the indexFile transaction fails at point 1..5
FailCodes == 0..6
TxFailOf(code) == IF code < 2 THEN 0 ELSE code - 1

\* the passes of the model: at most one file of a pass fails
NoFail == [p \in MdPaths |-> 0]
FailMaps == {[p \in MdPaths |-> IF p = fp THEN code ELSE 0] : fp \in MdPaths, code \in FailCodes}

\* console.error(`Warning: Could not index ${relPath}: ${message}`)
Warning(relPath, message) == [path |-> relPath, message |-> message]

\* the outcome of an API call: its counters and the warnings it logged
Outcome(op, indexed, skipped, removed, warned) ==
  [op |-> op, indexed |-> indexed, skipped |-> skipped, removed |-> removed,
   warned |-> warned]
NoCall == Outcome("none", 0, 0, 0, {})

\* the counters and the log of a pass after one file
Tally(s, relPath, r) ==
  [s EXCEPT !.db = r.db,
            !.indexed = @ + (IF r.outcome = "indexed" THEN 1 ELSE 0),
            !.skipped = @ + (IF r.outcome = "skipped" THEN 1 ELSE 0),
            !.warned = @ \cup (IF r.outcome = "failed"
                               THEN {Warning(relPath, "sqlite")} ELSE {})]

\* currentPaths.add(relPath)
Seen(s, relPath) == [s EXCEPT !.currentPaths = @ \cup {relPath}]

\* the loop body with the bug of counting the unreadable file as skipped
ScanFileCounted(s, relPath, content, code) ==
  IF code = 1
  THEN [Seen(s, relPath) EXCEPT !.warned = @ \cup {Warning(relPath, "read")},
                                !.skipped = @ + 1]
  ELSE Tally(Seen(s, relPath), relPath, SyncFile(s.db, relPath, content, TxFailOf(code)))

\* the loop body with the bug of recording the path after the read
ScanFileReadFirst(s, relPath, content, code) ==
  IF code = 1
  THEN [s EXCEPT !.warned = @ \cup {Warning(relPath, "read")}]
  ELSE IF isBinary(content) THEN s
  ELSE Tally(Seen(s, relPath), relPath, SyncFile(s.db, relPath, content, TxFailOf(code)))

\* the body of the loop of indexMemory over mdFiles, for one file
ScanFile(s, relPath, content, code) ==
  IF code = 1
  THEN [Seen(s, relPath) EXCEPT !.warned = @ \cup {Warning(relPath, "read")}]
  ELSE Tally(Seen(s, relPath), relPath, SyncFile(s.db, relPath, content, TxFailOf(code)))

RECURSIVE ScanLoop(_, _, _, _)
ScanLoop(s, dsk, fail, i) ==
  IF i > Len(MdOrder) THEN s
  ELSE IF dsk[MdOrder[i]] = NoFile THEN ScanLoop(s, dsk, fail, i + 1)
  ELSE ScanLoop(ScanFile(s, MdOrder[i], dsk[MdOrder[i]], fail[MdOrder[i]]), dsk, fail, i + 1)

RECURSIVE RemoveLoop(_, _)
\* removeFile for every path of the set
RemoveLoop(d, paths) ==
  IF paths = {} THEN d
  ELSE RemoveLoop(removeFile(d, CHOOSE q \in paths : TRUE),
                  paths \ {CHOOSE q \in paths : TRUE})

\* the state of a pass before its first file
PassStart(d) ==
  [db |-> d, indexed |-> 0, skipped |-> 0, removed |-> 0, warned |-> {},
   currentPaths |-> {}]

\* the query with the bug of a missing WHERE: SELECT path FROM files
EveryPath(d) == {f.path : f \in d.files}

\* SELECT path FROM files WHERE source = 'memory'
MemoryPaths(d) == {f.path : f \in {g \in d.files : g.source = "memory"}}

\* the removal of the memory files that were not seen, and the return
Sweep(s, gone) ==
  [db |-> RemoveLoop(s.db, gone),
   ret |-> Outcome("index", s.indexed, s.skipped, Cardinality(gone), s.warned)]

SweepUnseen(s, existingPaths) == Sweep(s, existingPaths \ s.currentPaths)

\* indexMemory up to the embedding pass
indexMemory(d, dsk, fail) ==
  SweepUnseen(ScanLoop(PassStart(d), dsk, fail, 1), MemoryPaths(d))

\* indexSession: returns quietly, or lets the failure of indexFile through
indexSessionAsMemory(d, sessionPath, content, failAt) ==
  IF SameHash(d, sessionPath, sha256(content, 32))
  THEN [db |-> d, threw |-> FALSE]
  ELSE indexFile(d, sessionPath, "memory", content, sha256(content, 32),
                 ByteLength(content), failAt)

indexSession(d, sessionPath, content, failAt) ==
  IF SameHash(d, sessionPath, sha256(content, 32))
  THEN [db |-> d, threw |-> FALSE]
  ELSE indexFile(d, sessionPath, "sessions", content, sha256(content, 32),
                 ByteLength(content), failAt)

\* the body of the loop of processChanges, for one pending path
FlushFile(s, relPath, content, code) ==
  IF content = NoFile
  THEN [s EXCEPT !.db = removeFile(s.db, relPath), !.removed = @ + 1]
  ELSE IF code = 1 THEN [s EXCEPT !.warned = @ \cup {Warning(relPath, "read")}]
  ELSE Tally(s, relPath, SyncFile(s.db, relPath, content, TxFailOf(code)))

RECURSIVE FlushLoop(_, _, _, _, _)
FlushLoop(s, dsk, pending, fail, i) ==
  IF i > Len(MdOrder) THEN s
  ELSE IF MdOrder[i] \notin pending THEN FlushLoop(s, dsk, pending, fail, i + 1)
  ELSE FlushLoop(FlushFile(s, MdOrder[i], dsk[MdOrder[i]], fail[MdOrder[i]]),
                 dsk, pending, fail, i + 1)

\* what processChanges leaves: the counters are the "Indexed:" and
\* "Removed:" lines it logs
Flushed(s) == [db |-> s.db, ret |-> Outcome("flush", s.indexed, 0, s.removed, s.warned)]

processChanges(d, dsk, pending, fail) ==
  Flushed(FlushLoop(PassStart(d), dsk, pending, fail, 1))


(***************************************************************************)
(* The lexical search, as far as the store decides it: the rows of         *)
(* chunks_fts that match a term, joined with chunks on rowid = id.         *)
(***************************************************************************)
TextTokens(text) == UNION {Tokens(text[i]) : i \in 1..Len(text)}

SearchHits(d, term) ==
  {c \in d.chunks : \E e \in d.chunks_fts : e.rowid = c.id /\ term \in TextTokens(e.text)}

\* getStats().totalFiles and .totalChunks
totalFiles(d) == Cardinality(d.files)
totalChunks(d) == Cardinality(d.chunks)

\* logSession: appendFileSync of one JSON line and its '\n' to the
\* transcript of the day, created when missing
logSession(content) ==
  IF content = NoFile THEN <<Entry(1), "">>
  ELSE SubSeq(content, 1, Len(content) - 1) \o <<Entry(Len(content)), "">>

(***************************************************************************)
(* search (search.ts). A query is the sequence of its pieces: words and    *)
(* runs of whitespace. A score is a fraction n/d in lowest terms.          *)
(***************************************************************************)
WS == " "
Words == {"a", "(pie)", "''", "hello"}

\* the queries of the model: no two words without whitespace between them
Queries ==
  {q \in UNION {[1..n -> Words \cup {WS}] : n \in 0..MaxQuery} :
     \A i \in 1..(Len(q) - 1) : q[i] = WS \/ q[i + 1] = WS}

\* w.length
WordLength(w) ==
  CASE w = "" -> 0
    [] w = "a" -> 1
    [] w = "''" -> 2
    [] OTHER -> 5

\* w.replace(/[:*^()"']/g, '')
Sanitize(w) ==
  CASE w = "(pie)" -> "pie"
    [] w = "''" -> ""
    [] OTHER -> w

RECURSIVE SplitFrom(_, _, _, _)
\* query.split(/\s+/): cur is the word being read, out the words before it
SplitFrom(q, i, cur, out) ==
  IF i > Len(q) THEN Append(out, cur)
  ELSE IF q[i] # WS THEN SplitFrom(q, i + 1, q[i], out)
  ELSE IF i > 1 /\ q[i - 1] = WS THEN SplitFrom(q, i + 1, cur, out)
  ELSE SplitFrom(q, i + 1, "", Append(out, cur))

Split(q) == SplitFrom(q, 1, "", <<>>)

\* the filter with the bug of keeping the words of one character
IsLongOrShort(w) == WordLength(w) > 0

\* .filter(w => w.length > 1)
IsLong(w) == WordLength(w) > 1
NotEmpty(w) == WordLength(w) > 0

\* .map(w => w.replace(...))
SanitizeAll(words) == [i \in 1..Len(words) |-> Sanitize(words[i])]

\* formatFtsQuery: the quoted words joined with OR, as the sequence of the
\* words; the empty sequence is the empty string
formatFtsQuery(query) == SanitizeAll(SelectSeq(Split(query), IsLong))

\* simpleFts of the fallback
simpleFtsQuery(query) == SelectSeq(SanitizeAll(SelectSeq(Split(query), IsLong)), NotEmpty)

\* the chunk rows the MATCH of the quoted words finds, joined on rowid = id
MatchRows(d, fts) ==
  UNION {IF fts[i] = "" THEN {} ELSE SearchHits(d, fts[i]) : i \in 1..Len(fts)}

\* AND c.source = ?
OfSource(rows, source) == IF source = "all" THEN rows ELSE {c \in rows : c.source = source}

RECURSIVE Gcd(_, _)
Gcd(a, b) == IF b = 0 THEN a ELSE Gcd(b, a % b)

\* the number n / d, d > 0, in lowest terms
Frac(n, d) ==
  [n |-> n \div Gcd(IF n < 0 THEN 0 - n ELSE n, d),
   d |-> d \div Gcd(IF n < 0 THEN 0 - n ELSE n, d)]
FracLeq(x, y) == x.n * y.d <= y.n * x.d
FracDiv(x, y) == Frac(x.n * y.d, x.d * y.n)
FracMul(x, y) == Frac(x.n * y.n, x.d * y.d)
FracAdd(x, y) == Frac(x.n * y.d + y.n * x.d, x.d * y.d)

\* a row of the SELECT: rank * -1 AS score
ResultRow(c, score) ==
  [path |-> c.path, snippet |-> c.text, startLine |-> c.startLine,
   endLine |-> c.endLine, source |-> c.source, score |-> score]

\* the row ORDER BY rank puts first: the largest score, ties in rowid order
FirstByRank(rows, raw) ==
  CHOOSE c \in rows : \A k \in rows : raw[c.id] > raw[k.id] \/ (raw[c.id] = raw[k.id] /\ c.id <= k.id)

RECURSIVE OrderByRank(_, _, _)
\* ORDER BY rank LIMIT ?
OrderByRank(rows, raw, limit) ==
  IF rows = {} \/ limit <= 0 THEN <<>>
  ELSE <<ResultRow(FirstByRank(rows, raw), Frac(raw[FirstByRank(rows, raw).id], 1))>>
         \o OrderByRank(rows \ {FirstByRank(rows, raw)}, raw, limit - 1)

\* db.prepare(sql).all(...params)
RunQuery(d, fts, source, maxResults, raw) ==
  OrderByRank(OfSource(MatchRows(d, fts), source), raw, maxResults)

RECURSIVE MaxScoreOf(_)
\* Math.max(...results.map(r => r.score))
MaxScoreOf(results) ==
  IF Len(results) = 1 THEN results[1].score
  ELSE IF FracLeq(MaxScoreOf(Tail(results)), results[1].score) THEN results[1].score
  ELSE MaxScoreOf(Tail(results))

\* the normalization with the bug of leaving the scores as they are
DivideScoresNot(results, maxScore) == results

\* r.score = r.score / maxScore
DivideScores(results, maxScore) ==
  IF maxScore.n > 0
  THEN [i \in 1..Len(results) |->
          [results[i] EXCEPT !.score = FracDiv(@, maxScore)]]
  ELSE results

\* the normalization of the scores to the range 0-1
Normalize(results) ==
  IF Len(results) > 0 THEN DivideScores(results, MaxScoreOf(results)) ELSE results

\* the filter with the bug of ignoring minScore
FilterByScoreAll(results, minScore) == results

RECURSIVE FilterByScore(_, _)
\* results.filter(r => r.score >= minScore)
FilterByScore(results, minScore) ==
  IF Len(results) = 0 THEN <<>>
  ELSE (IF FracLeq(minScore, results[1].score) THEN <<results[1]>> ELSE <<>>)
         \o FilterByScore(Tail(results), minScore)

\* opts.maxResults ?? 10, opts.minScore ?? 0.0, opts.source ?? 'all'
DefaultMaxResults == 10
SearchOptions ==
  [maxResults : {1, DefaultMaxResults}, minScore : {Frac(0, 1), Frac(1, 1)},
   source : {"all", "memory", "sessions"}]

\* what a call of search returns, and how often it queried the index
Found(results, attempts) == [results |-> results, attempts |-> attempts, threw |-> FALSE]

\* the catch block with the bug of letting the second rejection through
FallbackRethrows(d, simpleFts, opts, raw, rejected) ==
  IF Len(simpleFts) = 0 THEN Found(<<>>, 1)
  ELSE IF rejected THEN [results |-> <<>>, attempts |-> 2, threw |-> TRUE]
  ELSE Found(FilterByScore(Normalize(RunQuery(d, simpleFts, opts.source, opts.maxResults, raw)),
                           opts.minScore), 2)

\* the catch block of search: rejected tells whether the engine rejects
\* the simpler query too
Fallback(d, simpleFts, opts, raw, rejected) ==
  IF Len(simpleFts) = 0 THEN Found(<<>>, 1)
  ELSE IF rejected THEN Found(<<>>, 2)
  ELSE Found(FilterByScore(Normalize(RunQuery(d, simpleFts, opts.source, opts.maxResults, raw)),
                           opts.minScore), 2)

\* search: raw gives the score the engine computes for a chunk, rejects how
\* many of the queries in a row the engine rejects
search(d, query, opts, raw, rejects) ==
  IF Len(formatFtsQuery(query)) = 0 THEN Found(<<>>, 0)
  ELSE IF rejects > 0 THEN Fallback(d, simpleFtsQuery(query), opts, raw, rejects > 1)
  ELSE Found(FilterByScore(Normalize(RunQuery(d, formatFtsQuery(query), opts.source,
                                              opts.maxResults, raw)),
                           opts.minScore), 1)

(***************************************************************************)
(* The embedding pass (generateEmbeddings).                                *)
(***************************************************************************)
BATCH_SIZE == 32

\* what the provider returns for a text, serialized
Embedding(text) == [of |-> text]

RECURSIVE SortById(_)
SortById(rows) ==
  IF rows = {} THEN <<>>
  ELSE <<CHOOSE r \in rows : \A q \in rows : r.id <= q.id>>
         \o SortById(rows \ {CHOOSE r \in rows : \A q \in rows : r.id <= q.id})

\* the SELECT without its WHERE: every chunk
chunksWithOrWithoutVectors(d) == SortById({[id |-> c.id, text |-> c.text] : c \in d.chunks})

\* SELECT c.id, c.text FROM chunks c LEFT JOIN vectors v ... WHERE v.chunk_id IS NULL
chunksWithoutVectors(d) ==
  SortById({[id |-> c.id, text |-> c.text] :
              c \in {k \in d.chunks : \A v \in d.vectors : v.chunk_id # k.id}})

\* INSERT OR REPLACE INTO vectors (chunk_id, embedding)
insertVector(d, chunkId, embedding) ==
  [d EXCEPT !.vectors = {v \in @ : v.chunk_id # chunkId}
                          \cup {[chunk_id |-> chunkId, embedding |-> embedding]}]

RECURSIVE InsertVectors(_, _)
\* insertVector for the chunks of the batch, up to the first row that
\* breaks the foreign key
InsertVectors(d, batch) ==
  IF Len(batch) = 0 THEN [db |-> d, threw |-> FALSE]
  ELSE IF ~VectorForeignKeyOk(d, batch[1].id) THEN [db |-> d, threw |-> TRUE]
  ELSE InsertVectors(insertVector(d, batch[1].id, Embedding(batch[1].text)), Tail(batch))

\* what db.transaction makes of the inserts: all of them, or none
Committed(d, r) == IF r.threw THEN [db |-> d, threw |-> TRUE] ELSE r

insertBatch(d, batch) == Committed(d, InsertVectors(d, batch))

Min(a, b) == IF a < b THEN a ELSE b

NoPass == [pc |-> "idle", op |-> "none", todo |-> <<>>, i |-> 0, embedded |-> 0, warned |-> {}]

\* the pass at its first await, or its return when there is nothing to embed
Started(todo) ==
  IF Len(todo) = 0 THEN [NoPass EXCEPT !.pc = "done"]
  ELSE [NoPass EXCEPT !.pc = "await", !.todo = todo]

\* generateEmbeddings up to its first await: the chunk list is read
StartPass(d) == Started(chunksWithoutVectors(d))

\* the pass that the call op awaits before it returns
PassOf(op, d) == [StartPass(d) EXCEPT !.op = op]

\* batch = chunksWithoutVectors.slice(i, i + BATCH_SIZE)
BatchOf(ps) == SubSeq(ps.todo, ps.i + 1, Min(ps.i + BATCH_SIZE, Len(ps.todo)))

\* the pass after a batch: embedded += batch.length, or the warning of the
\* catch block; then the await of the next batch, or the return of the count
Counted(ps, count, message) ==
  [ps EXCEPT !.embedded = @ + (IF message = "" THEN count ELSE 0),
             !.warned = @ \cup (IF message = "" THEN {} ELSE {message})]

\* the loop with the bug of ending at the first batch that failed
AdvanceUnlessFailed(ps) ==
  IF ps.warned = {} /\ ps.i + BATCH_SIZE < Len(ps.todo)
  THEN [ps EXCEPT !.i = @ + BATCH_SIZE]
  ELSE [ps EXCEPT !.pc = "done", !.todo = <<>>, !.i = 0]

\* i += BATCH_SIZE and the test of the loop
Advance(ps) ==
  IF ps.i + BATCH_SIZE < Len(ps.todo)
  THEN [ps EXCEPT !.i = @ + BATCH_SIZE]
  ELSE [ps EXCEPT !.pc = "done", !.todo = <<>>, !.i = 0]

(***************************************************************************)
(* The embeddings module (embeddings.ts): pipelineInstance, loadingPromise *)
(* and the calls of embed and embedBatch, each at `await getPipeline()`,   *)
(* at `await extractor(...)` or not running.                               *)
(***************************************************************************)
Callers == 1..MaxCallers

\* the module as it is loaded; started counts the runs of the loading
\* function and loads the calls of mod.pipeline
NoLoader ==
  [pipelineInstance |-> FALSE, loadingPromise |-> "null", stage |-> "none",
   started |-> 0, loads |-> 0,
   pc |-> [c \in Callers |-> "idle"], awaits |-> [c \in Callers |-> 0],
   out |-> [c \in Callers |-> "none"]]

\* the test with the bug of not looking at loadingPromise
InFlightUnseen(l) == FALSE

\* if (loadingPromise) return loadingPromise
InFlight(l) == l.loadingPromise # "null"

\* loadingPromise = (async () => { ... await import(moduleName) ... })()
StartLoad(l) ==
  [l EXCEPT !.loadingPromise = "pending", !.stage = "import", !.started = @ + 1]

\* the caller awaits the promise getPipeline returned
AwaitLoad(l, c) == [l EXCEPT !.pc[c] = "load", !.awaits[c] = l.started]

\* getPipeline with the bug of starting a new load after a rejected one
getPipelineRetries(l, c) ==
  IF l.pipelineInstance THEN [l EXCEPT !.pc[c] = "extract"]
  ELSE IF l.loadingPromise = "pending" THEN AwaitLoad(l, c)
  ELSE AwaitLoad(StartLoad(l), c)

\* getPipeline called by c
getPipeline(l, c) ==
  IF l.pipelineInstance THEN [l EXCEPT !.pc[c] = "extract"]
  ELSE IF InFlight(l) THEN AwaitLoad(l, c)
  ELSE AwaitLoad(StartLoad(l), c)

\* the import of the loading function settles: mod.pipeline is called, or
\* the promise is rejected
Imported(l, ok) ==
  IF ok THEN [l EXCEPT !.stage = "pipeline", !.loads = @ + 1]
  ELSE [l EXCEPT !.stage = "end", !.loadingPromise = "rejected"]

\* mod.pipeline settles: pipelineInstance is set and the promise fulfilled,
\* or the promise is rejected
PipelineLoaded(l, ok) ==
  IF ok THEN [l EXCEPT !.stage = "end", !.pipelineInstance = TRUE, !.loadingPromise = "fulfilled"]
  ELSE [l EXCEPT !.stage = "end", !.loadingPromise = "rejected"]

\* the caller goes on after `await getPipeline()`: to the extractor, or
\* out with the rejection
Resumed(l, c) ==
  IF l.loadingPromise = "fulfilled" THEN [l EXCEPT !.pc[c] = "extract", !.awaits[c] = 0]
  ELSE [l EXCEPT !.pc[c] = "idle", !.awaits[c] = 0, !.out[c] = "error"]

\* the extractor settles and embed or embedBatch returns or throws
Extracted(l, c, ok) ==
  [l EXCEPT !.pc[c] = "idle", !.out[c] = IF ok THEN "vectors" ELSE "error"]

\* embed(text), and embedBatch(texts), which returns [] for no texts
\* without asking for the pipeline
embedCall(l, c, texts) ==
  IF texts = 0 THEN [l EXCEPT !.out[c] = "empty"]
  ELSE getPipeline([l EXCEPT !.out[c] = "none"], c)

(***************************************************************************)
(* getFileChunk (search.ts).  An optional argument is the empty sequence   *)
(* when it is left out and <<n>> when it is given.                         *)
(***************************************************************************)
\* lineCount ?? 20
DefaultLineCount == 20
LineCountOf(lineCount) == IF lineCount = <<>> THEN DefaultLineCount ELSE lineCount[1]

\* AND end_line >= ? AND start_line <= ?, with fromLine and
\* fromLine + (lineCount ?? 20), when fromLine is given
InWindow(c, fromLine, lineCount) ==
  fromLine = <<>> \/ (c.endLine >= fromLine[1] /\ c.startLine <= fromLine[1] + LineCountOf(lineCount))

\* the row ORDER BY start_line puts first
FirstByStart(rows) ==
  CHOOSE c \in rows : \A k \in rows : c.startLine < k.startLine \/ (c.startLine = k.startLine /\ c.id <= k.id)

RECURSIVE JoinTexts(_)
\* chunks.map(c => c.text).join('\n') of the rows in the order of start_line
JoinTexts(rows) ==
  IF rows = {} THEN <<>>
  ELSE FirstByStart(rows).text \o JoinTexts(rows \ {FirstByStart(rows)})

\* if (chunks.length === 0) return null
TextOrNull(rows) ==
  IF rows = {} THEN [found |-> FALSE, text |-> <<>>] ELSE [found |-> TRUE, text |-> JoinTexts(rows)]

getFileChunk(d, path, fromLine, lineCount) ==
  TextOrNull({c \in d.chunks : c.path = path /\ InWindow(c, fromLine, lineCount)})

(***************************************************************************)
(* hybridSearch (search.ts).  The call runs the lexical search, decides    *)
(* whether vectors can be used and, if so, awaits the embedding of the     *)
(* query; the merge runs when the provider has answered, on the store as   *)
(* it is then.                                                             *)
(***************************************************************************)
\* no call of hybridSearch is awaiting the provider
NoHybrid == [pc |-> "idle"]

\* search(db, query, {maxResults: maxResults * 3, minScore: 0, source})
Lexical(d, query, opts, raw, rejects) ==
  search(d, query, [maxResults |-> opts.maxResults * 3, minScore |-> Frac(0, 1),
                    source |-> opts.source], raw, rejects).results

\* the fallback with the bug of returning every candidate
Bm25OnlyUnsliced(bm25Results, opts) ==
  [results |-> FilterByScore(bm25Results, opts.minScore), mode |-> "bm25", merged |-> <<>>]

\* bm25Results.slice(0, maxResults).filter(r => r.score >= minScore)
Bm25Only(bm25Results, opts) ==
  [results |-> FilterByScore(SubSeq(bm25Results, 1, Min(opts.maxResults, Len(bm25Results))),
                             opts.minScore),
   mode |-> "bm25", merged |-> <<>>]

\* the check with the bug of not counting the vectors
CanDoVectorsUncounted(d, available) == available /\ d.hasVectors

\* embeddingsAvailable() && hasVectorsTable(db), and SELECT COUNT(*) FROM
\* vectors is not 0
CanDoVectors(d, available) == available /\ d.hasVectors /\ Cardinality(d.vectors) > 0

\* WHERE path = ? AND start_line = ? AND end_line = ?
SameSpan(c, r) == c.path = r.path /\ c.startLine = r.startLine /\ c.endLine = r.endLine

\* SELECT id FROM chunks WHERE ...: the id of the first such row, 0 for
\* undefined
LookupId(d, r) ==
  IF \E c \in d.chunks : SameSpan(c, r)
  THEN (CHOOSE c \in d.chunks : SameSpan(c, r) /\ \A k \in d.chunks : SameSpan(k, r) => c.id <= k.id).id
  ELSE 0

\* bm25Map.set(chunk.id, {result: r, bm25Score: r.score}); a Map keeps the
\* position of a key that is set again
MapSet(map, id, r) ==
  IF id = 0 THEN map
  ELSE IF \E i \in 1..Len(map) : map[i].chunkId = id
  THEN [i \in 1..Len(map) |-> IF map[i].chunkId = id THEN [chunkId |-> id, result |-> r] ELSE map[i]]
  ELSE Append(map, [chunkId |-> id, result |-> r])

RECURSIVE Bm25Map(_, _, _)
\* for (const r of bm25Results)
Bm25Map(d, results, map) ==
  IF Len(results) = 0 THEN map
  ELSE Bm25Map(d, Tail(results), MapSet(map, LookupId(d, results[1]), results[1]))

\* FROM vectors v JOIN chunks c ON v.chunk_id = c.id [WHERE c.source = ?]
VectorRows(d, source) ==
  SortById(OfSource({c \in d.chunks : \E v \in d.vectors : v.chunk_id = c.id}, source))

\* the cosine taken as it is, negative or not
ClampNot(x) == x

\* Math.max(0, cosine)
Clamp(x) == IF x < 0 THEN 0 ELSE x

\* maxCosine after the loop over vectorRows
MaxCosine(vrows, cos) ==
  CHOOSE m \in {0} \cup {Clamp(cos[vrows[i].id]) : i \in 1..Len(vrows)} :
    \A i \in 1..Len(vrows) : Clamp(cos[vrows[i].id]) <= m

\* entry.cosine = entry.cosine / maxCosine when maxCosine > 0
NormCosine(x, maxCosine) == IF maxCosine > 0 THEN Frac(Clamp(x), maxCosine) ELSE Frac(Clamp(x), 1)

\* vectorScores: chunk_id -> {cosine, row}
VectorScores(vrows, cos, maxCosine) ==
  [i \in 1..Len(vrows) |->
     [chunkId |-> vrows[i].id, cosine |-> NormCosine(cos[vrows[i].id], maxCosine), row |-> vrows[i]]]

\* map.has(id)
HasKey(map, id) == \E i \in 1..Len(map) : map[i].chunkId = id

\* map.get(id)
GetKey(map, id) == map[CHOOSE i \in 1..Len(map) : map[i].chunkId = id]

RECURSIVE NewKeys(_, _)
\* the keys of vectorScores that new Set([...]) has not seen in bm25Map
NewKeys(vscores, map) ==
  IF Len(vscores) = 0 THEN <<>>
  ELSE (IF HasKey(map, vscores[1].chunkId) THEN <<>> ELSE <<vscores[1].chunkId>>)
         \o NewKeys(Tail(vscores), map)

\* new Set([...bm25Map.keys(), ...vectorScores.keys()])
AllChunkIds(map, vscores) == [i \in 1..Len(map) |-> map[i].chunkId] \o NewKeys(vscores, map)

\* the score with the bug of leaving the cosine out
HybridScoreLexical(bm25Weight, bm25Score, vectorWeight, cosineScore) ==
  FracMul(bm25Weight, bm25Score)

\* bm25Weight * bm25Score + vectorWeight * cosineScore
HybridScore(bm25Weight, bm25Score, vectorWeight, cosineScore) ==
  FracAdd(FracMul(bm25Weight, bm25Score), FracMul(vectorWeight, cosineScore))

\* bm25Entry?.bm25Score ?? 0 and vectorEntry?.cosine ?? 0
Bm25ScoreOf(map, id) == IF HasKey(map, id) THEN GetKey(map, id).result.score ELSE Frac(0, 1)
CosineScoreOf(vscores, id) == IF HasKey(vscores, id) THEN GetKey(vscores, id).cosine ELSE Frac(0, 1)

\* resultObj: the lexical result when there is one, else the vector row
ResultObj(map, vscores, id, score) ==
  IF HasKey(map, id) THEN [GetKey(map, id).result EXCEPT !.score = score]
  ELSE ResultRow(GetKey(vscores, id).row, score)

\* merged.push({chunkId, score: hybridScore, result: resultObj})
Candidate(map, vscores, id, score) ==
  [chunkId |-> id, score |-> score, result |-> ResultObj(map, vscores, id, score)]

\* the loop over allChunkIds
Merged(map, vscores, ids, opts) ==
  [i \in 1..Len(ids) |->
     Candidate(map, vscores, ids[i],
               HybridScore(opts.bm25Weight, Bm25ScoreOf(map, ids[i]),
                           opts.vectorWeight, CosineScoreOf(vscores, ids[i])))]

\* the candidate a stable descending sort puts first
Best(merged) ==
  CHOOSE i \in 1..Len(merged) :
    /\ \A k \in 1..Len(merged) : FracLeq(merged[k].score, merged[i].score)
    /\ \A k \in 1..(i - 1) : merged[k].score # merged[i].score

RECURSIVE SortByScore(_)
PutFirst(merged, i) ==
  <<merged[i]>> \o SortByScore(SubSeq(merged, 1, i - 1) \o SubSeq(merged, i + 1, Len(merged)))

\* merged.sort((a, b) => b.score - a.score)
SortByScore(merged) == IF Len(merged) = 0 THEN <<>> ELSE PutFirst(merged, Best(merged))

\* m.result.score = m.result.score / maxHybrid when maxHybrid > 0
NormalizeMerged(sorted) ==
  IF Len(sorted) > 0 /\ sorted[1].score.n > 0
  THEN [i \in 1..Len(sorted) |-> [sorted[i].result EXCEPT !.score = FracDiv(@, sorted[1].score)]]
  ELSE [i \in 1..Len(sorted) |-> sorted[i].result]

\* merged.slice(0, maxResults).map(m => m.result).filter(r => r.score >= minScore)
FinalResults(sorted, opts) ==
  FilterByScore(SubSeq(NormalizeMerged(sorted), 1, Min(opts.maxResults, Len(sorted))),
                opts.minScore)

\* what the call returns in hybrid mode; merged is the candidate list
\* before the final normalization
HybridOut(sorted, opts) ==
  [results |-> FinalResults(sorted, opts), mode |-> "hybrid",
   merged |-> [i \in 1..Len(sorted) |-> [chunkId |-> sorted[i].chunkId, score |-> sorted[i].score]]]

MergeFrom(map, vscores, opts) ==
  HybridOut(SortByScore(Merged(map, vscores, AllChunkIds(map, vscores), opts)), opts)

MergeRows(d, bm25Results, vrows, opts, cos) ==
  MergeFrom(Bm25Map(d, bm25Results, <<>>), VectorScores(vrows, cos, MaxCosine(vrows, cos)), opts)

\* hybridSearch after the query is embedded; cos gives the cosine
\* similarity of the query and the vector of a chunk, in halves
HybridMerge(d, bm25Results, opts, cos) ==
  MergeRows(d, bm25Results, VectorRows(d, opts.source), opts, cos)


(***************************************************************************)
(* The state.                                                              *)
(*   disk          the source tree: the content of every path, or NoFile   *)
(*   db            the store                                               *)
(*   ret           the outcome of the API call made by the last step       *)
(*   provider      isAvailable(): whether the embedding library resolves   *)
(*   hybrid        the call of hybridSearch that awaits embed(query)       *)
(*   loader        the embeddings module: its pipeline, the load of the    *)
(*                 model and the calls of embed and embedBatch             *)
(*   warnings      how often the missing provider was warned about         *)
(*   timers        the timers of the watcher: the one debounceTimer names, *)
(*                 others that are still armed, and the time since the     *)
(*                 last event                                              *)
(*   watching      whether watchMemory is running                          *)
(*   pendingFiles  the paths the watcher has queued for its next flush     *)
(*   rx            how far a running reindexAll has come                   *)
(*   pass          the embedding pass: the chunk list it read, the batch   *)
(*                 it awaits and its count                                 *)
(***************************************************************************)
VARIABLES disk, db, ret, provider, hybrid, loader, warnings, timers, watching, pendingFiles, rx, pass

vars == <<disk, db, ret, provider, hybrid, loader, warnings, timers, watching, pendingFiles, rx, pass>>

\* no timer is armed; debounceTimer is null or names a timer that fired
NoTimers == [handle |-> 0 - 1, stale |-> {}, quiet |-> 0]

\* the call with the bug of leaving the timer armed
clearTimeoutNot(t) ==
  [t EXCEPT !.handle = 0 - 1, !.stale = @ \cup (IF t.handle >= 0 THEN {t.handle} ELSE {})]

\* if (debounceTimer) clearTimeout(debounceTimer)
clearTimeout(t) == [t EXCEPT !.handle = 0 - 1]

\* debounceTimer = setTimeout(processChanges, 2000)
setTimeout(t) == [t EXCEPT !.handle = DebounceSeconds]

\* scheduleProcess: the timer is replaced, and an event has just arrived
scheduleTimer(t) ==
  IF watching THEN setTimeout(clearTimeout([t EXCEPT !.quiet = 0])) ELSE t

\* the timers that are armed, and whether one of them is due
Outstanding(t) == (IF t.handle >= 0 THEN 1 ELSE 0) + Cardinality(t.stale)
Due(t) == t.handle = 0 \/ 0 \in t.stale

\* a timer has fired
Fired(t) ==
  IF 0 \in t.stale THEN [t EXCEPT !.stale = @ \ {0}] ELSE [t EXCEPT !.handle = 0 - 1]

\* a second passes
Elapsed(t) ==
  [handle |-> IF t.handle > 0 THEN t.handle - 1 ELSE t.handle,
   stale |-> {n - 1 : n \in t.stale},
   quiet |-> IF t.quiet < DebounceSeconds THEN t.quiet + 1 ELSE t.quiet]

InitStore ==
  /\ disk = [p \in Paths |-> NoFile]
  /\ db = EmptyDb
  /\ ret = NoCall
  /\ hybrid = NoHybrid
  /\ loader = NoLoader
  /\ warnings = 0
  /\ timers = NoTimers
  /\ watching = FALSE
  /\ pendingFiles = {}
  /\ rx = "idle"
  /\ pass = NoPass

\* a process in which the embedding library is not installed
Init == InitStore /\ provider = FALSE

\* scheduleProcess: the event of a path joins the pending set
scheduleProcess(p) == IF watching THEN pendingFiles \cup {p} ELSE pendingFiles

\* an editor writes a memory file
FsWrite ==
  \E p \in MdPaths : \E c \in Editable(p) :
    /\ rx = "idle"
    /\ disk[p] # c
    /\ disk' = [disk EXCEPT ![p] = c]
    /\ pendingFiles' = scheduleProcess(p)
    /\ timers' = scheduleTimer(timers)
    /\ ret' = NoCall
    /\ UNCHANGED <<db, provider, hybrid, loader, warnings, watching, rx, pass>>

\* a memory file is deleted
FsRemove ==
  \E p \in MdPaths :
    /\ rx = "idle"
    /\ disk[p] # NoFile
    /\ disk' = [disk EXCEPT ![p] = NoFile]
    /\ pendingFiles' = scheduleProcess(p)
    /\ timers' = scheduleTimer(timers)
    /\ ret' = NoCall
    /\ UNCHANGED <<db, provider, hybrid, loader, warnings, watching, rx, pass>>

\* logSession(root, sessionId, entry)
LogSession ==
  /\ rx = "idle"
  /\ Len(disk[SessionPath]) <= MaxEntries
  /\ disk' = [disk EXCEPT ![SessionPath] = logSession(@)]
  /\ ret' = Outcome("logSession", 0, 0, 0, {})
  /\ UNCHANGED <<db, provider, hybrid, loader, warnings, timers, watching, pendingFiles, rx, pass>>

\* the store and the outcome a call of indexSession leaves
SessionReturn(r) ==
  /\ r.db.seq <= MaxId
  /\ db' = r.db
  /\ ret' = Outcome("indexSession", 0, 0, 0,
                    IF r.threw THEN {Warning(SessionPath, "sqlite")} ELSE {})

\* cmdLog after logSession: read the transcript and index it
IndexSession ==
  \E failAt \in TxFailPoints :
    /\ rx = "idle"
    /\ disk[SessionPath] # NoFile
    /\ SessionReturn(indexSession(db, SessionPath, disk[SessionPath], failAt))
    /\ UNCHANGED <<disk, provider, hybrid, loader, warnings, timers, watching, pendingFiles, rx, pass>>

\* createVectorsTable
WithVectorsTable(d) == [d EXCEPT !.hasVectors = TRUE]

\* the store, the pass and the outcome a scan leaves; e tells whether
\* generateEmbeddings runs and finds the provider
ScanReturn(r, op, e) ==
  /\ r.db.seq <= MaxId
  /\ db' = IF e THEN WithVectorsTable(r.db) ELSE r.db
  /\ pass' = IF e THEN PassOf(op, r.db) ELSE pass
  /\ ret' = [r.ret EXCEPT !.op = op]

\* generateEmbeddings without the provider: console.error('Warning: ...'),
\* counted up to MaxWarnings
MissingProvider(missing) ==
  /\ missing => warnings < MaxWarnings
  /\ warnings' = IF missing THEN warnings + 1 ELSE warnings

\* index(root, {embeddings}): the scan and, when asked for and the provider
\* is there, the start of the embedding pass
IndexMemoryCall(fails, flags) ==
  \E fail \in fails, embeddings \in flags :
    /\ rx = "idle"
    /\ embeddings => pass.pc # "await"
    /\ ScanReturn(indexMemory(db, disk, fail), "index", embeddings /\ provider)
    /\ MissingProvider(embeddings /\ ~provider)
    /\ UNCHANGED <<disk, provider, hybrid, loader, timers, watching, pendingFiles, rx>>

IndexMemory == IndexMemoryCall(FailMaps, {FALSE})

\* watch(root)
StartWatch ==
  /\ rx = "idle"
  /\ ~watching
  /\ watching' = TRUE
  /\ ret' = Outcome("watch", 0, 0, 0, {})
  /\ UNCHANGED <<disk, db, provider, hybrid, loader, warnings, timers, pendingFiles, rx, pass>>

\* the store and the outcome a flush leaves
FlushReturn(r) ==
  /\ r.db.seq <= MaxId
  /\ db' = r.db
  /\ ret' = r.ret

\* the debounce timer fires: processChanges
FlushCall(fails) ==
  \E fail \in fails :
    /\ rx = "idle"
    /\ watching
    /\ pendingFiles # {}
    /\ FlushReturn(processChanges(db, disk, pendingFiles, fail))
    /\ pendingFiles' = {}
    /\ timers' = Fired(timers)
    /\ UNCHANGED <<disk, provider, hybrid, loader, warnings, watching, rx, pass>>

Flush == FlushCall(FailMaps)

\* reindexAll: DELETE FROM chunks
ReindexDeleteChunks ==
  /\ rx = "idle"
  /\ db' = DeleteChunkRows(db, db.chunks)
  /\ rx' = "chunksDeleted"
  /\ ret' = NoCall
  /\ UNCHANGED <<disk, provider, hybrid, loader, warnings, timers, watching, pendingFiles, pass>>

\* the statement with the bug of deleting no File row
ReindexKeepFiles ==
  /\ rx = "chunksDeleted"
  /\ rx' = "filesDeleted"
  /\ ret' = NoCall
  /\ UNCHANGED <<disk, db, provider, hybrid, loader, warnings, timers, watching, pendingFiles, pass>>

\* reindexAll: DELETE FROM files
ReindexDeleteFiles ==
  /\ rx = "chunksDeleted"
  /\ db' = DeleteFileRows(db, db.files)
  /\ rx' = "filesDeleted"
  /\ ret' = NoCall
  /\ UNCHANGED <<disk, provider, hybrid, loader, warnings, timers, watching, pendingFiles, pass>>

\* if (hasVectorsTable(db)) DELETE FROM vectors
ClearVectors(d) == IF d.hasVectors THEN [d EXCEPT !.vectors = {}] ELSE d

\* reindexAll: DELETE FROM vectors when the table exists, the FTS rebuild,
\* and indexMemory
ReindexScanCall(fails, flags) ==
  \E fail \in fails, embeddings \in flags :
    /\ rx = "filesDeleted"
    /\ embeddings => pass.pc # "await"
    /\ ScanReturn(indexMemory(FtsRebuild(ClearVectors(db)), disk, fail), "reindexAll",
                  embeddings /\ provider)
    /\ rx' = "idle"
    /\ MissingProvider(embeddings /\ ~provider)
    /\ UNCHANGED <<disk, provider, hybrid, loader, timers, watching, pendingFiles>>

ReindexScan == ReindexScanCall(FailMaps, {FALSE})

Next ==
  \/ FsWrite
  \/ FsRemove
  \/ LogSession
  \/ IndexSession
  \/ IndexMemory
  \/ StartWatch
  \/ Flush
  \/ ReindexDeleteChunks
  \/ ReindexDeleteFiles
  \/ ReindexScan

Spec == Init /\ [][Next]_vars

(***************************************************************************)
(* A reindexAll that stops between its statements: the statements run in   *)
(* autocommit, so what ran before an exception or the end of the process   *)
(* stays in the store.                                                     *)
(***************************************************************************)
ReindexStop ==
  /\ rx # "idle"
  /\ rx' = "idle"
  /\ ret' = Outcome("reindexAll", 0, 0, 0, {Warning("", "stopped")})
  /\ UNCHANGED <<disk, db, provider, hybrid, loader, warnings, timers, watching, pendingFiles, pass>>

NextStop ==
  \/ Next
  \/ ReindexStop

SpecStop == Init /\ [][NextStop]_vars

(***************************************************************************)
(* A process with the embedding library: index and reindexAll may ask for  *)
(* embeddings, and the pass they start awaits the provider batch by batch  *)
(* while the watcher goes on flushing. Sessions and failing files are left *)
(* out of this specification.                                              *)
(***************************************************************************)
InitEmbed == InitStore /\ provider = TRUE

\* the store and the pass after the batch the pass awaited
BatchReturn(ps, n, r) ==
  /\ db' = r.db
  /\ pass' = Advance(Counted(ps, n, IF r.threw THEN "sqlite" ELSE ""))

\* embedBatch rejects: the catch block logs the batch
BatchRejected(ps) ==
  /\ db' = db
  /\ pass' = Advance(Counted(ps, 0, "provider"))

\* the provider answers the await of the pass: the batch is inserted, or
\* the failure is logged, and the loop goes on
EmbedBatch ==
  \E ok \in BOOLEAN :
    /\ pass.pc = "await"
    /\ rx = "idle"
    /\ IF ok THEN BatchReturn(pass, Len(BatchOf(pass)), insertBatch(db, BatchOf(pass)))
             ELSE BatchRejected(pass)
    /\ ret' = NoCall
    /\ UNCHANGED <<disk, provider, hybrid, loader, warnings, timers, watching, pendingFiles, rx>>

IndexEmbed == IndexMemoryCall({NoFail}, BOOLEAN)
FlushEmbed == FlushCall({NoFail})
ReindexScanEmbed == ReindexScanCall({NoFail}, BOOLEAN)

NextEmbed ==
  \/ FsWrite
  \/ FsRemove
  \/ IndexEmbed
  \/ StartWatch
  \/ FlushEmbed
  \/ EmbedBatch
  \/ ReindexDeleteChunks
  \/ ReindexDeleteFiles
  \/ ReindexScanEmbed

SpecEmbed == InitEmbed /\ [][NextEmbed]_vars

(***************************************************************************)
(* The chunker on its own: a memory tree that holds one document of        *)
(* ChunkDocs as a.md, and `index` run once on the empty store.             *)
(***************************************************************************)
InitChunk ==
  /\ \E doc \in ChunkDocs : disk = [p \in Paths |-> IF p = "a.md" THEN doc ELSE NoFile]
  /\ db = EmptyDb
  /\ ret = NoCall
  /\ hybrid = NoHybrid
  /\ loader = NoLoader
  /\ warnings = 0
  /\ timers = NoTimers
  /\ provider = FALSE
  /\ watching = FALSE
  /\ pendingFiles = {}
  /\ rx = "idle"
  /\ pass = NoPass

\* the store and the outcome the first scan leaves
FreshReturn(r) ==
  /\ db' = r.db
  /\ ret' = r.ret

\* index(root) on the empty store
IndexFresh ==
  /\ ret = NoCall
  /\ FreshReturn(indexMemory(db, disk, NoFail))
  /\ UNCHANGED <<disk, provider, hybrid, loader, warnings, timers, watching, pendingFiles, rx, pass>>

NextChunk ==
  \/ IndexFresh

SpecChunk == InitChunk /\ [][NextChunk]_vars

(***************************************************************************)
(* Searching: a process without the embedding library, on a tree that      *)
(* holds the two-section note as a.md; it indexes the tree, logs and       *)
(* indexes transcripts, and searches.                                      *)
(***************************************************************************)
InitSearch ==
  /\ disk = [p \in Paths |-> IF p = "a.md" THEN DocB ELSE NoFile]
  /\ db = EmptyDb
  /\ ret = NoCall
  /\ hybrid = NoHybrid
  /\ loader = NoLoader
  /\ warnings = 0
  /\ timers = NoTimers
  /\ provider = FALSE
  /\ watching = FALSE
  /\ pendingFiles = {}
  /\ rx = "idle"
  /\ pass = NoPass

\* the chunk ids the engine scores for a query
ScoredIds(d, fts) == {c.id : c \in MatchRows(d, fts)}

\* how many queries in a row the engine may reject
Rejections(fts) == IF Len(fts) = 0 THEN {0} ELSE 0..2

\* the queries made of words that occur in the tree
WordQueries ==
  {q \in Queries : /\ Len(q) > 0
                   /\ q[1] # WS
                   /\ q[Len(q)] # WS
                   /\ \A i \in 1..Len(q) : q[i] \in {"(pie)", "hello", WS}}

\* the engine scores every chunk alike
FlatRaw(ids) == [id \in ids |-> 1]

\* the call of search and what it returned
SearchReturn(query, opts, raw, rejects) ==
  ret' = [op |-> "search", query |-> query, opts |-> opts, raw |-> raw,
          rejects |-> rejects, out |-> search(db, query, opts, raw, rejects)]

\* search(db, query) with the default options, for every query and every
\* way the engine may reject it; a search leaves the store as it is, so the
\* searches of the model are made in the states the other operations leave
SearchWords ==
  \E query \in Queries : \E rejects \in Rejections(formatFtsQuery(query)) :
    /\ rx = "idle"
    /\ ret.op # "search"
    /\ SearchReturn(query, [maxResults |-> DefaultMaxResults, minScore |-> Frac(0, 1),
                            source |-> "all"],
                    FlatRaw(ScoredIds(db, formatFtsQuery(query))), rejects)
    /\ UNCHANGED <<disk, db, provider, hybrid, loader, warnings, timers, watching, pendingFiles, rx, pass>>

\* search(db, query, opts) for the queries that match, with every option
\* and every score the engine may compute
SearchRanked ==
  \E query \in WordQueries, opts \in SearchOptions :
    \E raw \in [ScoredIds(db, formatFtsQuery(query)) -> 1..MaxRaw] :
      /\ rx = "idle"
      /\ ret.op # "search"
      /\ SearchReturn(query, opts, raw, 0)
      /\ UNCHANGED <<disk, db, provider, hybrid, loader, warnings, timers, watching, pendingFiles, rx, pass>>

\* the optional arguments of getFileChunk
FromLines == {<<>>} \cup {<<n>> : n \in 1..MaxLines}
LineCounts == {<<>>, <<1>>, <<2>>}

\* cmdGet: getFileChunk(db, filePath, fromLine, lineCount)
GetChunk ==
  \E path \in Paths, fromLine \in FromLines, lineCount \in LineCounts :
    /\ rx = "idle"
    /\ ret.op \notin {"search", "get"}
    /\ ret' = [op |-> "get", path |-> path, fromLine |-> fromLine, lineCount |-> lineCount,
               out |-> getFileChunk(db, path, fromLine, lineCount)]
    /\ UNCHANGED <<disk, db, provider, hybrid, loader, warnings, timers, watching, pendingFiles, rx, pass>>

IndexQuiet == IndexMemoryCall({NoFail}, {FALSE})

NextSearch ==
  \/ IndexQuiet
  \/ LogSession
  \/ IndexSession
  \/ SearchWords
  \/ SearchRanked
  \/ GetChunk

SpecSearch == InitSearch /\ [][NextSearch]_vars

(***************************************************************************)
(* Hybrid search: a tree with one note, index with or without embeddings,  *)
(* the embedding pass, transcripts, the removal of the note, and calls of  *)
(* hybridSearch, which the other operations may overtake while the query   *)
(* is embedded.                                                            *)
(***************************************************************************)
InitHybrid ==
  /\ disk = [p \in Paths |-> IF p = "a.md" THEN DocB ELSE NoFile]
  /\ db = EmptyDb
  /\ ret = NoCall
  /\ hybrid = NoHybrid
  /\ loader = NoLoader
  /\ warnings = 0
  /\ timers = NoTimers
  /\ provider \in BOOLEAN
  /\ watching = FALSE
  /\ pendingFiles = {}
  /\ rx = "idle"
  /\ pass = NoPass

\* bm25Weight and vectorWeight: the defaults, and options that weigh the
\* lexical part twice the vector part
DefaultWeight == Frac(1, 2)
HybridOptions ==
  [maxResults : {1, DefaultMaxResults}, minScore : {Frac(0, 1), Frac(1, 1)},
   source : {"all", "memory"}, bm25Weight : {Frac(1, 1)},
   vectorWeight : {DefaultWeight}]
DefaultHybridOptions ==
  [maxResults |-> DefaultMaxResults, minScore |-> Frac(0, 1), source |-> "all",
   bm25Weight |-> DefaultWeight, vectorWeight |-> DefaultWeight]

\* the cosine similarity of two normalized vectors, in halves
CosValues == {0 - 1, 1, 2}

\* the queries of the hybrid searches
HybridQueries == {<<>>, <<"a">>, <<"(pie)">>, <<"''", WS, "(pie)">>}

\* what a call of hybridSearch was given and what it returned: bm25 is the
\* list the lexical search returned, count the COUNT(*) of vectors at the
\* call, embedded whether embed(query) resolved
HybridReturn(h, embedded, cos, out) ==
  ret' = [op |-> "hybrid", query |-> h.query, opts |-> h.opts, raw |-> h.raw,
          rejects |-> h.rejects, bm25 |-> h.bm25, count |-> h.count,
          embedded |-> embedded, cos |-> cos, out |-> out]

\* hybridSearch up to `await embed(query)`, or to its return when vectors
\* cannot be used
HybridBegin(h) ==
  IF CanDoVectors(db, provider)
  THEN hybrid' = h /\ ret' = NoCall
  ELSE hybrid' = hybrid /\ HybridReturn(h, FALSE, <<>>, Bm25Only(h.bm25, h.opts))

HybridCall(query, opts, raw, rejects) ==
  /\ hybrid.pc = "idle"
  /\ ret.op # "hybrid"
  /\ HybridBegin([pc |-> "await", query |-> query, opts |-> opts, raw |-> raw,
                  rejects |-> rejects, count |-> Cardinality(db.vectors),
                  bm25 |-> Lexical(db, query, opts, raw, rejects)])
  /\ UNCHANGED <<disk, db, provider, loader, warnings, timers, watching, pendingFiles, rx, pass>>

\* hybridSearch(db, query) with the default options, for every way the
\* engine may reject the query
HybridWords ==
  \E query \in HybridQueries : \E rejects \in Rejections(formatFtsQuery(query)) :
    HybridCall(query, DefaultHybridOptions, FlatRaw(ScoredIds(db, formatFtsQuery(query))),
               rejects)

\* the query of the ranked searches: it matches the note and the transcript
RankedQuery == <<"(pie)", WS, "hello">>

\* hybridSearch(db, 'pie hello', opts) with every option and every score
\* the engine may compute
HybridRanked ==
  \E opts \in HybridOptions :
    \E raw \in [ScoredIds(db, formatFtsQuery(RankedQuery)) -> 1..MaxRaw] :
      HybridCall(RankedQuery, opts, raw, 0)

\* the provider answers the await of hybridSearch: the query is embedded
\* and the merge runs, or embed throws and the lexical results are returned
HybridResume ==
  \E ok \in BOOLEAN : \E cos \in [{v.chunk_id : v \in db.vectors} -> CosValues] :
    /\ hybrid.pc = "await"
    /\ rx = "idle"
    /\ ok \/ \A id \in DOMAIN cos : cos[id] = 2   \* no cosine is computed when embed throws
    /\ hybrid' = NoHybrid
    /\ IF ok THEN HybridReturn(hybrid, TRUE, cos, HybridMerge(db, hybrid.bm25, hybrid.opts, cos))
             ELSE HybridReturn(hybrid, FALSE, <<>>, Bm25Only(hybrid.bm25, hybrid.opts))
    /\ UNCHANGED <<disk, db, provider, loader, warnings, timers, watching, pendingFiles, rx, pass>>

NextHybrid ==
  \/ FsRemove
  \/ IndexEmbed
  \/ EmbedBatch
  \/ LogSession
  \/ IndexSession
  \/ HybridWords
  \/ HybridRanked
  \/ HybridResume

SpecHybrid == InitHybrid /\ [][NextHybrid]_vars

(***************************************************************************)
(* Embedding passes over several batches: a tree whose note has a section  *)
(* per line, so that index leaves more chunks than one batch holds; index  *)
(* runs with or without embeddings, again and again, the provider answers  *)
(* or rejects each batch, and the note may be removed meanwhile.           *)
(***************************************************************************)
\* a note of n sections that are a heading only
HeadingDoc(n) == [i \in 1..n |-> "# Alpha"]
HeadingTree(n) == [p \in Paths |-> IF p = "a.md" THEN HeadingDoc(n) ELSE NoFile]

\* the store index leaves for the tree of that note: a chunk per section
HeadingStore(n) ==
  [files |-> {[path |-> "a.md", source |-> "memory", hash |-> sha256(HeadingDoc(n), 32),
               size |-> ByteLength(HeadingDoc(n))]},
   chunks |-> {[id |-> i, path |-> "a.md", source |-> "memory", text |-> <<"# Alpha">>,
                startLine |-> i, endLine |-> i, hash |-> sha256(<<"# Alpha">>, 16)] : i \in 1..n},
   chunks_fts |-> {[rowid |-> i, text |-> <<"# Alpha">>] : i \in 1..n},
   vectors |-> {}, seq |-> n, hasVectors |-> FALSE]

\* the numbers of sections that fill k batches, and k batches and a chunk
\* more
PassSizes ==
  {k * BATCH_SIZE : k \in 1..MaxBatches} \cup {k * BATCH_SIZE + 1 : k \in 0..MaxBatches}

\* index has run on the tree; for a short note the store is computed by
\* index itself and compared
InitPass ==
  /\ HeadingStore(MaxLines) = indexMemory(EmptyDb, HeadingTree(MaxLines), NoFail).db
  /\ \E n \in PassSizes : disk = HeadingTree(n) /\ db = HeadingStore(n)
  /\ ret = NoCall
  /\ hybrid = NoHybrid
  /\ loader = NoLoader
  /\ warnings = 0
  /\ timers = NoTimers
  /\ provider = TRUE
  /\ watching = FALSE
  /\ pendingFiles = {}
  /\ rx = "idle"
  /\ pass = NoPass

\* the store, the pass and the outcome index leaves; e tells whether
\* generateEmbeddings runs
PassReturn(r, e) ==
  /\ db' = IF e THEN WithVectorsTable(r.db) ELSE r.db
  /\ pass' = IF e THEN PassOf("index", r.db) ELSE pass
  /\ ret' = [r.ret EXCEPT !.op = IF e THEN "index+embed" ELSE "index"]

\* index(root, {embeddings}) on a tree of any size
IndexPass ==
  \E embeddings \in BOOLEAN :
    /\ embeddings => pass.pc # "await"
    /\ PassReturn(indexMemory(db, disk, NoFail), embeddings)
    /\ UNCHANGED <<disk, provider, hybrid, loader, warnings, timers, watching, pendingFiles, rx>>

NextPass ==
  \/ FsRemove
  \/ IndexPass
  \/ EmbedBatch

SpecPass == InitPass /\ [][NextPass]_vars

(***************************************************************************)
(* The calls of embed and embedBatch in one process, in any interleaving   *)
(* with the load of the model.                                             *)
(***************************************************************************)
\* embed(text) or embedBatch(texts) with so many texts
CallEmbed ==
  \E c \in Callers, texts \in 0..1 :
    /\ loader.pc[c] = "idle"
    /\ loader.started < MaxCallers
    /\ loader' = embedCall(loader, c, texts)
    /\ UNCHANGED <<disk, db, ret, provider, hybrid, warnings, timers, watching, pendingFiles, rx, pass>>

\* `await import(moduleName)` settles
ImportSettles ==
  \E ok \in BOOLEAN :
    /\ loader.stage = "import"
    /\ loader' = Imported(loader, ok)
    /\ UNCHANGED <<disk, db, ret, provider, hybrid, warnings, timers, watching, pendingFiles, rx, pass>>

\* `await mod.pipeline(...)` settles
PipelineSettles ==
  \E ok \in BOOLEAN :
    /\ loader.stage = "pipeline"
    /\ loader' = PipelineLoaded(loader, ok)
    /\ UNCHANGED <<disk, db, ret, provider, hybrid, warnings, timers, watching, pendingFiles, rx, pass>>

\* a caller is resumed when the promise it awaits has settled
ResumeCaller ==
  \E c \in Callers :
    /\ loader.pc[c] = "load"
    /\ loader.loadingPromise \in {"fulfilled", "rejected"}
    /\ loader' = Resumed(loader, c)
    /\ UNCHANGED <<disk, db, ret, provider, hybrid, warnings, timers, watching, pendingFiles, rx, pass>>

\* `await extractor(...)` settles
ExtractSettles ==
  \E c \in Callers, ok \in BOOLEAN :
    /\ loader.pc[c] = "extract"
    /\ loader' = Extracted(loader, c, ok)
    /\ UNCHANGED <<disk, db, ret, provider, hybrid, warnings, timers, watching, pendingFiles, rx, pass>>

NextLoad ==
  \/ CallEmbed
  \/ ImportSettles
  \/ PipelineSettles
  \/ ResumeCaller
  \/ ExtractSettles

SpecLoad == InitEmbed /\ [][NextLoad]_vars

(***************************************************************************)
(* One process without the provider: notes are edited, index runs with and *)
(* without embeddings requested, and hybridSearch is called.               *)
(***************************************************************************)
NextWarn ==
  \/ FsWrite
  \/ FsRemove
  \/ IndexEmbed
  \/ HybridWords

SpecWarn == Init /\ [][NextWarn]_vars

(***************************************************************************)
(* The watcher from its start to its shutdown (cmdWatch): notes are edited *)
(* and removed, the debounce timer fires, and SIGINT or SIGTERM closes the *)
(* watcher.  A note is written only while the ids of the model suffice for *)
(* the flush of what is pending.                                           *)
(***************************************************************************)
FlushFits ==
  \A p \in MdPaths : \A c \in Editable(p) : db.seq + Len(chunkMarkdown(c)) <= MaxId

WatchWrite == FlushFits /\ FsWrite

\* the debounce timer fires and every file can be read
FlushQuiet == FlushCall({NoFail})

\* shutdown: watcher.close().then(() => { db.close(); process.exit(0) }).
\* close() releases the chokidar watcher; the timer of the pending flush is
\* not awaited and ends with the process
CloseWatch ==
  /\ rx = "idle"
  /\ watching
  /\ watching' = FALSE
  /\ pendingFiles' = {}
  /\ ret' = Outcome("close", 0, 0, 0, {})
  /\ timers' = NoTimers
  /\ UNCHANGED <<disk, db, provider, hybrid, loader, warnings, rx, pass>>

NextWatch ==
  \/ WatchWrite
  \/ FsRemove
  \/ IndexQuiet
  \/ StartWatch
  \/ FlushQuiet
  \/ CloseWatch

SpecWatch == Init /\ [][NextWatch]_vars

\* the debounce timer is armed
TimerArmed == watching /\ pendingFiles # {} /\ rx = "idle"

\* the step of the armed timer: the pending set is emptied while the
\* watcher runs, which only processChanges does
TimerFires == TimerArmed /\ pendingFiles' = {} /\ watching' = TRUE

\* setTimeout(processChanges, 2000): a timer that stays armed fires
SpecWatchFair == SpecWatch /\ WF_<<pendingFiles, watching>>(TimerFires)

(***************************************************************************)
(* The watcher with its clock: seconds pass between the events, and the    *)
(* flush runs when a timer is due.                                         *)
(***************************************************************************)
\* a second passes while no timer is due
Tick ==
  /\ watching
  /\ ~Due(timers)
  /\ timers' = Elapsed(timers)
  /\ timers' # timers
  /\ UNCHANGED <<disk, db, ret, provider, hybrid, loader, warnings, watching, pendingFiles, rx, pass>>

\* a due timer runs processChanges
DueFlush == Due(timers) /\ FlushQuiet

NextDebounce ==
  \/ WatchWrite
  \/ FsRemove
  \/ StartWatch
  \/ Tick
  \/ DueFlush
  \/ CloseWatch

SpecDebounce == Init /\ [][NextDebounce]_vars

(***************************************************************************)
(* What the claims speak of.                                               *)
(***************************************************************************)
RECURSIVE TranscriptOf(_)
\* the transcript after k calls of logSession
TranscriptOf(k) == IF k = 0 THEN NoFile ELSE logSession(TranscriptOf(k - 1))

\* every content a path of the model can have
AllDocs == MemoryDocs \cup {TranscriptOf(k) : k \in 1..(MaxEntries + 1)}

\* a chunk row without its surrogate id, path and source
ChunkData(c) ==
  [text |-> c.text, startLine |-> c.startLine, endLine |-> c.endLine, hash |-> c.hash]

\* the chunks the chunker computes from a content, as a set
ExpectedChunks(content) ==
  LET chunks == chunkMarkdown(content) IN {chunks[i] : i \in 1..Len(chunks)}

\* the chunk rows of the path are the chunks of the content, each once
HoldsChunksOf(d, path, content) ==
  /\ {ChunkData(c) : c \in ChunkRows(d, path)} = ExpectedChunks(content)
  /\ Cardinality(ChunkRows(d, path)) = Len(chunkMarkdown(content))

\* the path has a File row, and its chunk rows are those of the content
\* the row records
Complete(d, path) ==
  \E f \in FileRow(d, path) : \E content \in AllDocs :
    /\ f.hash = sha256(content, 32)
    /\ HoldsChunksOf(d, path, content)

RECURSIVE SumChunks(_)
\* the number of chunks of the contents the File rows record
SumChunks(files) ==
  IF files = {} THEN 0
  ELSE LET f == CHOOSE g \in files : TRUE
           content == CHOOSE c \in AllDocs : sha256(c, 32) = f.hash
       IN Len(chunkMarkdown(content)) + SumChunks(files \ {f})

\* C1: between operations, the chunk rows of every path are exactly the
\* chunks the chunker computes from the content whose hash the File row of
\* the path records (no chunk row without a File row, none of an earlier
\* version), and totalChunks counts the latest version of every file only.
C1_LatestVersionOnly ==
  rx = "idle" =>
    /\ \A c \in db.chunks : FileRow(db, c.path) # {}
    /\ \A f \in db.files : Complete(db, f.path)
    /\ totalChunks(db) = SumChunks(db.files)

\* a.md was indexed as DocA (chunk 1) and, changed to DocB, indexed again
C1_Witness ==
  /\ ret.op \in {"index", "flush"}
  /\ ret.indexed = 1
  /\ disk[SessionPath] = NoFile
  /\ \E f \in db.files : f.path = "a.md" /\ f.hash = sha256(DocB, 32)
  /\ {c.id : c \in ChunkRows(db, "a.md")} = {2, 3}

PathsOf(warned) == {w.path : w \in warned}

\* C2: a call of indexFile that fails leaves the File row and the Chunk
\* rows of the path as they were, and every committed state holds, for a
\* path touched by index, flush or indexSession, either the rows it had, or
\* no rows, or a File row with the complete chunk set of its content.
C2_AtomicReindex ==
  [][ret'.op \in {"index", "flush", "indexSession"} =>
       \A p \in Paths :
         /\ p \in PathsOf(ret'.warned) =>
              /\ FileRow(db', p) = FileRow(db, p)
              /\ ChunkRows(db', p) = ChunkRows(db, p)
         /\ \/ FileRow(db', p) = FileRow(db, p) /\ ChunkRows(db', p) = ChunkRows(db, p)
            \/ FileRow(db', p) = {} /\ ChunkRows(db', p) = {}
            \/ Complete(db', p)]_vars

\* the transaction of a changed, indexed file failed: its old rows are there
C2_Witness ==
  /\ ret.op \in {"index", "flush"}
  /\ \E w \in ret.warned :
       /\ w.message = "sqlite"
       /\ ChunkRows(db, w.path) # {}
       /\ \E f \in FileRow(db, w.path) : f.hash # sha256(disk[w.path], 32)

\* C3: in every committed state the full-text index holds exactly one
\* entry, with the id and the text of the row, for every chunk row, and no
\* other entry.
C3_FtsInSync ==
  /\ db.chunks_fts = {FtsEntry(c) : c \in db.chunks}
  /\ \A c1, c2 \in db.chunks : c1.id = c2.id => c1 = c2
  /\ Cardinality(db.chunks_fts) = Cardinality(db.chunks)

\* reindexAll has deleted chunks, rebuilt the index and indexed again
C3_Witness ==
  /\ ret.op = "reindexAll"
  /\ db.chunks # {}
  /\ db.seq > Cardinality(db.chunks)

(***************************************************************************)
(* Claims about the scan, the flush and session ingestion.                 *)
(***************************************************************************)
\* the paths a pass of the given kind visits
Visited(op, pending) ==
  CASE op = "flush" -> pending
    [] op = "indexSession" -> {SessionPath}
    [] OTHER -> MdPaths

\* the content a visit of the path reads: a text, read without error
ReadAsText(path, content, warned) ==
  /\ content # NoFile
  /\ ~isBinary(content)
  /\ Warning(path, "read") \notin warned

\* a File row of the path records the hash of the content
RowHasHash(d, path, content) == \E f \in FileRow(d, path) : f.hash = sha256(content, 32)

\* the rows of the path are the same rows in both stores
SameRows(d1, d2, path) ==
  /\ FileRow(d2, path) = FileRow(d1, path)
  /\ ChunkRows(d2, path) = ChunkRows(d1, path)

\* indexFile ran for the path: its transaction failed and left the rows, or
\* it replaced them by the File row and the fresh chunk rows of the content
Rechunked(d1, d2, path, content, warned) ==
  IF Warning(path, "sqlite") \in warned
  THEN SameRows(d1, d2, path)
  ELSE /\ RowHasHash(d2, path, content)
       /\ Cardinality(FileRow(d2, path)) = 1
       /\ HoldsChunksOf(d2, path, content)
       /\ \A c \in ChunkRows(d2, path) : c.id > d1.seq

\* the files of the tree a scan reads as text and finds in the store with
\* the same hash, and those it does not
Unchanged(d, dsk, warned) ==
  {p \in MdPaths : ReadAsText(p, dsk[p], warned) /\ RowHasHash(d, p, dsk[p])}
Changed(d, dsk, warned) ==
  {p \in MdPaths : ReadAsText(p, dsk[p], warned) /\ ~RowHasHash(d, p, dsk[p])}

\* C4: when a full scan, a watcher flush or indexSession visits a file it
\* reads as text, the file is re-chunked if and only if no File row of its
\* path has the hash of the content read; with equal hashes the File row and
\* the Chunk rows of the path are the same rows afterwards, and a scan counts
\* the file in `skipped` and nowhere else.
C4_RechunkIffHashDiffers ==
  [][ret'.op \in {"index", "reindexAll", "flush", "indexSession"} =>
       /\ \A p \in Visited(ret'.op, pendingFiles) :
            ReadAsText(p, disk[p], ret'.warned) =>
              IF RowHasHash(db, p, disk[p])
              THEN SameRows(db, db', p)
              ELSE Rechunked(db, db', p, disk[p], ret'.warned)
       /\ ret'.op \in {"index", "reindexAll"} =>
            /\ ret'.skipped = Cardinality(Unchanged(db, disk, ret'.warned))
            /\ ret'.indexed = Cardinality({p \in Changed(db, disk, ret'.warned) :
                                             Warning(p, "sqlite") \notin ret'.warned})]_vars

\* a scan skipped one file and re-chunked the other
C4_Witness ==
  /\ ret.op = "index"
  /\ ret.skipped = 1
  /\ ret.indexed = 1
  /\ ChunkRows(db, "a.md") # {}

\* the memory files of the tree that are texts
TextFiles(dsk) == {p \in MdPaths : dsk[p] # NoFile /\ ~isBinary(dsk[p])}

\* C5: when index(root) returns without a warning, in a tree without
\* transcripts, the File rows are those of the text files of the tree and
\* each records the hash of the current content of its file.
C5_TreeMirrored ==
  [][(ret'.op = "index" /\ ret'.warned = {} /\ disk[SessionPath] = NoFile) =>
       /\ {f.path : f \in db'.files} = TextFiles(disk)
       /\ \A f \in db'.files : f.hash = sha256(disk[f.path], 32)]_vars

\* the index terms of a set of chunk rows, and of a content
TermsOf(rows) == UNION {TextTokens(c.text) : c \in rows}
DocTerms(content) == UNION {Tokens(content[i]) : i \in 1..Len(content)}

\* the terms that occur in the indexed file of the path and nowhere else
UniqueTo(d, dsk, path) ==
  TermsOf(ChunkRows(d, path))
    \ (TermsOf(d.chunks \ ChunkRows(d, path))
         \cup UNION {DocTerms(dsk[q]) : q \in Paths \ {path}})

\* C6: when index(root) runs after an indexed memory file was removed from
\* disk, no File row and no Chunk row of the path is left, and the search
\* for a term that occurred in that file only finds nothing.
C6_RemovedFileGone ==
  [][ret'.op = "index" =>
       \A p \in MdPaths :
         (FileRow(db, p) # {} /\ disk[p] = NoFile) =>
           /\ FileRow(db', p) = {}
           /\ ChunkRows(db', p) = {}
           /\ \A t \in UniqueTo(db, disk, p) : SearchHits(db', t) = {}]_vars

\* a scan removed both files, chunks among their rows
C6_Witness ==
  /\ ret.op = "index"
  /\ ret.removed = 2
  /\ db.seq > 0
  /\ db.files = {}
  /\ db.chunks = {}

\* C7: the counters of a full scan that logged no warning, in a tree
\* without transcripts: `indexed` counts the text files with no File row or
\* a different hash, `skipped` those with the same hash, `removed` the File
\* rows whose path is not on disk, and totalFiles is afterwards the number
\* of text files on disk.
C7_CountersAccount ==
  [][(ret'.op = "index" /\ ret'.warned = {} /\ disk[SessionPath] = NoFile) =>
       /\ ret'.indexed = Cardinality(Changed(db, disk, {}))
       /\ ret'.skipped = Cardinality(Unchanged(db, disk, {}))
       /\ ret'.removed = Cardinality({f \in db.files : disk[f.path] = NoFile})
       /\ totalFiles(db') = Cardinality(TextFiles(disk))]_vars

\* the File and Chunk content of a store: no surrogate ids, no vectors
ContentOf(d) ==
  [files |-> d.files,
   chunks |-> {[path |-> c.path, source |-> c.source, data |-> ChunkData(c)] :
                 c \in d.chunks}]

\* C10: the content a scan that logged no warning leaves is the content
\* index produces on an empty store for the same source tree.
C10_RebuildableCache ==
  [][(ret'.op = "index" /\ ret'.warned = {}) =>
       ContentOf(db') = ContentOf(indexMemory(EmptyDb, disk', NoFail).db)]_vars

(***************************************************************************)
(* Claims about vectors and about reindexAll.                              *)
(***************************************************************************)
\* C8: in every state every Vector row references a Chunk row that exists,
\* whatever the interleaving of a running embedding pass with scans,
\* watcher flushes and reindexAll.
C8_VectorsReferenceChunks ==
  \A v \in db.vectors : \E c \in db.chunks : c.id = v.chunk_id

\* a pass read the chunk list, the chunks of its batch were deleted while
\* it awaited the provider, and its insert was refused
C8_Witness ==
  /\ pass.pc = "done"
  /\ pass.warned = {"sqlite"}
  /\ pass.embedded = 0
  /\ db.hasVectors
  /\ db.seq > 0

\* the File row records an empty or whitespace-only document
RecordsBlank(f) ==
  \E content \in AllDocs : f.hash = sha256(content, 32) /\ IsWhitespaceOnly(content)

\* C9: between operations, also after a reindexAll that stopped between
\* its delete statements, a File row has no Chunk rows only if the document
\* it records is empty or whitespace-only.
C9_NoEmptyFileRows ==
  rx = "idle" =>
    \A f \in db.files : ChunkRows(db, f.path) = {} => RecordsBlank(f)

(***************************************************************************)
(* Claims about the chunker.                                               *)
(***************************************************************************)
\* C11: every chunk of a document has 1 <= startLine <= endLine <= the
\* number of lines of the document, and the spans of two different chunks
\* of the document are disjoint.
C11_SpansWithinDocument ==
  \A c \in db.chunks :
    /\ 1 <= c.startLine
    /\ c.startLine <= c.endLine
    /\ c.endLine <= Len(disk[c.path])
    /\ \A c2 \in db.chunks :
         (c2 # c /\ c2.path = c.path) =>
           (c.endLine < c2.startLine \/ c2.endLine < c.startLine)

\* the document lines a chunk row claims as its span
SpanLines(c) == SubSeq(disk[c.path], c.startLine, c.endLine)

\* C12: the span of a chunk is exactly the document lines accumulated into
\* it: its text is those lines, trimmed, and a prepended heading-context
\* line comes on top of them without being counted in the span.
C12_SpanIsContent ==
  \A c \in db.chunks :
    /\ 1 <= c.startLine
    /\ c.startLine <= c.endLine
    /\ c.endLine <= Len(disk[c.path])
    /\ \/ c.text = Trim(SpanLines(c))
       \/ /\ IsHeading(c.text[1])
          /\ c.text = TrimEnd(<<c.text[1]>> \o SpanLines(c))

\* the texts of the chunk rows of a path, in the order of their insertion
TextsInOrder(d, path) ==
  [i \in 1..Cardinality(ChunkRows(d, path)) |-> SortById(ChunkRows(d, path))[i].text]

RECURSIVE Covers(_, _)
RECURSIVE Follows(_, _, _)
\* the lines are the texts in order, each with or without a heading line
\* prepended to it, and blank lines before, between and after them
Covers(lines, texts) ==
  IF Len(texts) = 0 THEN IsWhitespaceOnly(lines)
  ELSE \/ Follows(lines, TrimStart(texts[1]), Tail(texts))
       \/ /\ IsHeading(texts[1][1])
          /\ Follows(lines, TrimStart(Tail(texts[1])), Tail(texts))

\* the lines start, after blank lines, with the text t, and the rest of the
\* texts cover what follows
Follows(lines, t, rest) ==
  IF Len(t) = 0 THEN Covers(lines, rest)
  ELSE /\ Len(TrimStart(lines)) >= Len(t)
       /\ SubSeq(TrimStart(lines), 1, Len(t)) = t
       /\ Covers(SubSeq(TrimStart(lines), Len(t) + 1, Len(TrimStart(lines))), rest)

\* C13: the chunk texts of a document, in order and without their
\* prepended heading-context lines, are the lines of the document, each
\* once and in document order, up to the blank lines trimmed at the start
\* and the end of each chunk; a whitespace-only document has no chunk.
C13_ChunksCoverDocument ==
  \A f \in db.files :
    /\ Covers(disk[f.path], TextsInOrder(db, f.path))
    /\ IsWhitespaceOnly(disk[f.path]) => ChunkRows(db, f.path) = {}

\* a document with one heading, at its top, was split by size, and the
\* second chunk carries the heading as its context line
C13_Witness ==
  /\ ret.op = "index"
  /\ \A i \in 2..Len(disk["a.md"]) : ~IsHeading(disk["a.md"][i])
  /\ \E c \in db.chunks : c.id = 2 /\ IsHeading(c.text[1])

(***************************************************************************)
(* Claims about search.                                                    *)
(***************************************************************************)
\* no word of the query is longer than one character
NoLongWord(query) ==
  \A i \in 1..Len(query) : query[i] = WS \/ WordLength(query[i]) <= 1

\* C14: for the empty query, a whitespace-only query and a query without a
\* word longer than one character, search returns the empty list, raises
\* no error and does not query the index.
C14_ShortQueriesFindNothing ==
  (ret.op = "search" /\ NoLongWord(ret.query)) =>
    /\ ret.out.results = <<>>
    /\ ~ret.out.threw
    /\ ret.out.attempts = 0

\* the query ' a' was searched in a store that holds chunks
C14_Witness ==
  /\ ret.op = "search"
  /\ ret.query = <<WS, "a">>
  /\ db.chunks # {}
  /\ ret.out.attempts = 0

\* the words of the first attempt without those that sanitization emptied
RetryWords(query) == SelectSeq(formatFtsQuery(query), NotEmpty)

\* C15: search propagates no error; when the engine rejects the first
\* formatted query it retries once, with the words of the first attempt
\* that sanitization did not empty, and it returns the empty list when the
\* retry is rejected too or no word is left.
C15_RejectedQueryRetriedOnce ==
  ret.op = "search" =>
    /\ ~ret.out.threw
    /\ ret.out.attempts <= 2
    /\ ret.rejects = 0 => ret.out.attempts <= 1
    /\ (ret.rejects > 0 /\ ~NoLongWord(ret.query)) =>
         IF RetryWords(ret.query) = <<>>
         THEN ret.out.attempts = 1 /\ ret.out.results = <<>>
         ELSE /\ ret.out.attempts = 2
              /\ ret.rejects = 2 => ret.out.results = <<>>
              /\ ret.rejects = 1 =>
                   ret.out.results =
                     FilterByScore(Normalize(RunQuery(db, RetryWords(ret.query), ret.opts.source,
                                                      ret.opts.maxResults, ret.raw)),
                                   ret.opts.minScore)

\* the first query of "'' (pie)" was rejected and the retry found both
\* chunks of the note
C15_Witness ==
  /\ ret.op = "search"
  /\ ret.query = <<"''", WS, "(pie)">>
  /\ ret.rejects = 1
  /\ ret.out.attempts = 2
  /\ Len(ret.out.results) = 2

\* the chunk row a result describes
ChunkOfResult(d, r) ==
  CHOOSE c \in d.chunks :
    c.path = r.path /\ c.startLine = r.startLine /\ c.endLine = r.endLine

\* the rows the query of the last search matches, and the largest raw score
\* among them
Matches == OfSource(MatchRows(db, formatFtsQuery(ret.query)), ret.opts.source)
LargestRaw == CHOOSE m \in 1..MaxRaw :
                /\ \E c \in Matches : ret.raw[c.id] = m
                /\ \A c \in Matches : ret.raw[c.id] <= m

\* C16: every score search returns lies in [0, 1]; in a non-empty result
\* each score is the raw score divided by the largest raw score, the first
\* result has score 1 and the scores do not increase along the list.
C16_ScoresNormalized ==
  (ret.op = "search" /\ ret.out.results # <<>>) =>
    /\ \A i \in 1..Len(ret.out.results) :
         /\ FracLeq(Frac(0, 1), ret.out.results[i].score)
         /\ FracLeq(ret.out.results[i].score, Frac(1, 1))
         /\ ret.out.results[i].score =
              Frac(ret.raw[ChunkOfResult(db, ret.out.results[i]).id], LargestRaw)
    /\ ret.out.results[1].score = Frac(1, 1)
    /\ \A i \in 1..(Len(ret.out.results) - 1) :
         FracLeq(ret.out.results[i + 1].score, ret.out.results[i].score)

\* two chunks were found, the second with half the raw score of the first
C16_Witness ==
  /\ ret.op = "search"
  /\ Len(ret.out.results) = 2
  /\ ret.out.results[2].score = Frac(1, 2)

\* the row k ranks before the row c
RanksBefore(k, c) ==
  ret.raw[k.id] > ret.raw[c.id] \/ (ret.raw[k.id] = ret.raw[c.id] /\ k.id < c.id)

\* the rows the LIMIT lets through
WithinLimit == {c \in Matches : Cardinality({k \in Matches : RanksBefore(k, c)}) < ret.opts.maxResults}

\* C17: search returns at most maxResults results in rank order, all of the
\* source asked for and with a score of at least minScore; minScore is
\* applied to the rows the limit let through, so the list is those of the
\* first maxResults rows that reach minScore.
C17_LimitThenMinScore ==
  (ret.op = "search" /\ ret.rejects = 0) =>
    /\ Len(ret.out.results) <= ret.opts.maxResults
    /\ \A i \in 1..Len(ret.out.results) :
         /\ ret.opts.source # "all" => ret.out.results[i].source = ret.opts.source
         /\ FracLeq(ret.opts.minScore, ret.out.results[i].score)
    /\ \A i, j \in 1..Len(ret.out.results) :
         i < j => RanksBefore(ChunkOfResult(db, ret.out.results[i]),
                              ChunkOfResult(db, ret.out.results[j]))
    /\ {ChunkOfResult(db, ret.out.results[i]) : i \in 1..Len(ret.out.results)}
         = {c \in WithinLimit : FracLeq(ret.opts.minScore, Frac(ret.raw[c.id], LargestRaw))}

\* three chunks matched and the limit of one let the best through, which
\* minScore 1 kept
C17_Witness ==
  /\ ret.op = "search"
  /\ ret.opts.maxResults = 1
  /\ ret.opts.minScore = Frac(1, 1)
  /\ Cardinality(Matches) = 3
  /\ Len(ret.out.results) = 1

(***************************************************************************)
(* Claims about hybridSearch.                                              *)
(***************************************************************************)
\* C18: when the provider is missing, or the vectors table is missing or
\* empty, hybridSearch reports mode 'bm25' and returns what search returns
\* for the same query and options: the same results in the same order
\* with the same scores.
C18_NoVectorsSameAsSearch ==
  (ret.op = "hybrid" /\ (~provider \/ ~db.hasVectors \/ ret.count = 0)) =>
    /\ ret.out.mode = "bm25"
    /\ ret.out.results = search(db, ret.query, ret.opts, ret.raw, ret.rejects).results

\* the provider is there and the table exists but holds no vector; three
\* chunks match and the limit of one cuts the list
C18_Witness ==
  /\ ret.op = "hybrid"
  /\ provider /\ db.hasVectors /\ ret.count = 0
  /\ ret.opts.maxResults = 1
  /\ Len(ret.bm25) = 3
  /\ Len(ret.out.results) = 1

\* the first maxResults of the lexical results that reach minScore
Truncated(results, opts) ==
  SelectSeq(SubSeq(results, 1, Min(opts.maxResults, Len(results))),
            LAMBDA r : FracLeq(opts.minScore, r.score))

\* C19: hybridSearch reports mode 'hybrid' exactly when the provider is
\* available, at least one vector was stored at the call and embedding the
\* query succeeded; otherwise it reports 'bm25' and returns the lexical
\* results cut to maxResults and filtered by minScore.
C19_HybridIffVectorsUsable ==
  ret.op = "hybrid" =>
    /\ ret.out.mode = "hybrid" <=> (provider /\ ret.count > 0 /\ ret.embedded)
    /\ ret.out.mode # "hybrid" =>
         /\ ret.out.mode = "bm25"
         /\ ret.out.results = Truncated(ret.bm25, ret.opts)

\* vectors are stored and the provider is there, but embed(query) threw:
\* the lexical results come back in mode 'bm25'
C19_Witness ==
  /\ ret.op = "hybrid"
  /\ provider /\ ret.count > 0 /\ ~ret.embedded
  /\ ret.out.mode = "bm25"
  /\ Len(ret.out.results) > 0

\* the chunks of the store the lexical results describe
LexicalChunks == {c \in db.chunks : \E i \in 1..Len(ret.bm25) : SameSpan(c, ret.bm25[i])}

\* the chunks with a stored vector, restricted to the source asked for
VectorChunks ==
  {c \in db.chunks : /\ \E v \in db.vectors : v.chunk_id = c.id
                     /\ ret.opts.source # "all" => c.source = ret.opts.source}

\* bm25_norm: the score of the lexical result that describes the chunk
Bm25Norm(c) ==
  IF c \in LexicalChunks
  THEN ret.bm25[CHOOSE i \in 1..Len(ret.bm25) : SameSpan(c, ret.bm25[i])].score
  ELSE Frac(0, 1)

\* the largest cosine of a vector chunk, negative ones counted as 0
LargestCosine ==
  CHOOSE m \in 0..2 : /\ m = 0 \/ \E c \in VectorChunks : ret.cos[c.id] = m
                      /\ \A c \in VectorChunks : ret.cos[c.id] <= m

\* cosine_norm: the cosine over the largest one
CosineNorm(c) ==
  IF c \in VectorChunks /\ ret.cos[c.id] > 0 THEN Frac(ret.cos[c.id], LargestCosine)
  ELSE Frac(0, 1)

C21_HybridListNormalized ==
  (ret.op = "hybrid" /\ ret.out.mode = "hybrid") =>
    /\ Len(ret.out.results) <= ret.opts.maxResults
    /\ \A i \in 1..Len(ret.out.results) :
         /\ FracLeq(Frac(0, 1), ret.out.results[i].score)
         /\ FracLeq(ret.out.results[i].score, Frac(1, 1))
         /\ FracLeq(ret.opts.minScore, ret.out.results[i].score)
    /\ \A i \in 1..(Len(ret.out.results) - 1) :
         FracLeq(ret.out.results[i + 1].score, ret.out.results[i].score)
    /\ (\E i \in 1..Len(ret.out.merged) : ret.out.merged[i].score.n > 0) =>
         /\ Len(ret.out.results) > 0
         /\ ret.out.results[1].score = Frac(1, 1)
    /\ \A i \in 1..Len(ret.out.merged) :
         \A c \in VectorChunks :
           (c.id = ret.out.merged[i].chunkId /\ ret.cos[c.id] < 0) =>
             ret.out.merged[i].score = FracMul(ret.opts.bm25Weight, Bm25Norm(c))

\* two results came back in hybrid mode, the second with a score between
\* 0 and 1, and the vector of some chunk had a negative cosine
C21_Witness ==
  /\ ret.op = "hybrid"
  /\ ret.out.mode = "hybrid"
  /\ Len(ret.out.results) >= 2
  /\ ret.out.results[2].score.n > 0
  /\ ret.out.results[2].score # Frac(1, 1)
  /\ \E c \in VectorChunks : ret.cos[c.id] < 0

(***************************************************************************)
(* Claims about getChunk.                                                  *)
(***************************************************************************)
\* the chunks of the path asked for, and those whose span meets the window
\* of lineCount lines from fromLine on (20 lines when no count is given)
ChunksOfPath == {c \in db.chunks : c.path = ret.path}
LastOfWindow ==
  ret.fromLine[1] + (IF ret.lineCount = <<>> THEN DefaultLineCount ELSE ret.lineCount[1]) - 1
Intersecting ==
  IF ret.fromLine = <<>> THEN ChunksOfPath
  ELSE {c \in ChunksOfPath : c.endLine >= ret.fromLine[1] /\ c.startLine <= LastOfWindow}

\* texts is the sequence of the texts of rows in ascending startLine order
InStartOrder(texts, rows) ==
  /\ Len(texts) = Cardinality(rows)
  /\ \A i \in 1..Len(texts) :
       \E c \in rows : /\ c.text = texts[i]
                       /\ Cardinality({k \in rows : k.startLine < c.startLine}) = i - 1

RECURSIVE Concat(_)
Concat(texts) == IF Len(texts) = 0 THEN <<>> ELSE texts[1] \o Concat(Tail(texts))

\* C22: getChunk returns the texts of exactly the chunks of the path whose
\* span intersects the window, joined in ascending startLine order (all
\* chunks without a window), and it signals not-found exactly when the path
\* has no chunk.
C22_GetChunkWindow ==
  ret.op = "get" =>
    /\ ret.out.found <=> ChunksOfPath # {}
    /\ ret.out.found =>
         \E texts \in [1..Cardinality(Intersecting) -> {c.text : c \in Intersecting}] :
           InStartOrder(texts, Intersecting) /\ ret.out.text = Concat(texts)

(***************************************************************************)
(* Claims about the embedding pass.                                        *)
(***************************************************************************)
\* the ids of the batch the pass awaits
AwaitedIds == {pass.todo[k].id : k \in (pass.i + 1)..Len(pass.todo) \cap 1..(pass.i + BATCH_SIZE)}

\* the step is the answer of the provider to the batch the pass awaits
BatchStep == pass.pc = "await" /\ pass' # pass

\* C23: when the provider or the insert fails for a batch, the vectors
\* stored before stay, no vector of the batch is stored and the count is
\* not raised; when the batch succeeds the count is raised by its size and
\* every chunk of it has a vector; in both cases the pass goes on to the
\* next batch when there is one and returns the count only after the last.
C23_FailedBatchSkipped ==
  [][BatchStep =>
       /\ \/ /\ pass'.warned # {}
             /\ pass'.embedded = pass.embedded
             /\ db'.vectors = db.vectors
          \/ /\ pass'.warned = pass.warned
             /\ pass'.embedded = pass.embedded + Cardinality(AwaitedIds)
             /\ db.vectors \subseteq db'.vectors
             /\ \A id \in AwaitedIds : \E v \in db'.vectors : v.chunk_id = id
       /\ IF pass.i + BATCH_SIZE < Len(pass.todo)
          THEN /\ pass'.pc = "await"
               /\ pass'.todo = pass.todo
               /\ pass'.i = pass.i + BATCH_SIZE
          ELSE pass'.pc = "done"]_vars

\* a pass over two batches has returned: the first batch failed and the
\* second, of one chunk, was embedded after it
C23_Witness ==
  /\ pass.pc = "done"
  /\ pass.warned # {}
  /\ pass.embedded = 1
  /\ Cardinality(db.chunks) = BATCH_SIZE + 1
  /\ {v.chunk_id : v \in db.vectors} = {BATCH_SIZE + 1}

\* the step is the start of an embedding pass
PassStep == pass.pc # "await" /\ ret'.op = "index+embed"

\* the chunks of a store that have no vector
Unembedded(d) == {c.id : c \in {k \in d.chunks : \A v \in d.vectors : v.chunk_id # k.id}}

\* C24: a pass reads the chunks that have no vector when it starts and
\* calls the provider for these only; a pass that finds none returns 0 and
\* adds no vector, so a pass after one whose batches all succeeded embeds
\* nothing, and a pass after failed batches takes the chunks of those.
C24_PassTakesUnembedded ==
  [][/\ PassStep =>
          /\ {pass'.todo[k].id : k \in 1..Len(pass'.todo)} = Unembedded(db')
          /\ Len(pass'.todo) = Cardinality(Unembedded(db'))
          /\ db'.vectors \subseteq db.vectors
          /\ Unembedded(db') = {} => (pass'.pc = "done" /\ pass'.embedded = 0)
          /\ Unembedded(db') # {} => (pass'.pc = "await" /\ pass'.i = 0)
     /\ BatchStep =>
          {v.chunk_id : v \in db'.vectors \ db.vectors} \subseteq AwaitedIds]_vars

\* index with embeddings ran again after a pass that embedded both batches:
\* it found nothing to embed and the vectors are those of the first pass
C24_Witness ==
  /\ ret.op = "index+embed"
  /\ ret.skipped = 1
  /\ pass.pc = "done"
  /\ pass.embedded = 0
  /\ Cardinality(db.vectors) = BATCH_SIZE + 1
  /\ Unembedded(db) = {}

(***************************************************************************)
(* Claims about the provider.                                              *)
(***************************************************************************)
\* C25: in every interleaving of the calls of embed and embedBatch the
\* loading function runs at most once and calls mod.pipeline at most once,
\* and every caller that waits for the model waits for that one load.
C25_ModelLoadedOnce ==
  /\ loader.started <= 1
  /\ loader.loads <= 1
  /\ \A c \in Callers : loader.pc[c] = "load" => loader.awaits[c] = 1

\* three calls were issued before the load finished: all of them await the
\* one load, which has called mod.pipeline
C25_Witness ==
  /\ loader.loadingPromise = "pending"
  /\ loader.stage = "pipeline"
  /\ loader.started = 1
  /\ \A c \in Callers : loader.pc[c] = "load" /\ loader.awaits[c] = 1

\* C26: without the provider, index with embeddings requested and
\* hybridSearch complete with the lexical results and no pass is started,
\* and the warning about the missing provider was printed at most once,
\* however often the embeddings were requested.
C26_WarnedOncePerProcess ==
  /\ pass = NoPass
  /\ db.vectors = {}
  /\ ret.op = "hybrid" => ret.out = Bm25Only(ret.bm25, ret.opts)
  /\ warnings <= 1

(***************************************************************************)
(* Claims about the watcher.                                               *)
(***************************************************************************)
\* the store reflects the file of a path: no row of the path when the file
\* is absent, and when it is present no File row with another hash than
\* that of the content, and a File row when the content is text
Reflects(d, dsk, p) ==
  IF dsk[p] = NoFile
  THEN /\ \A f \in d.files : f.path # p
       /\ \A c \in d.chunks : c.path # p
  ELSE /\ \A f \in d.files : f.path = p => f.hash = sha256(dsk[p], 32)
       /\ ~isBinary(dsk[p]) => \E f \in d.files : f.path = p

\* C27: the shutdown of the watcher completes only after the scheduled
\* flush has run: when the watcher is closed the store reflects every path
\* that was pending.
C27_CloseRunsPendingFlush ==
  [][(watching /\ ~watching') =>
       \A p \in pendingFiles : Reflects(db', disk', p)]_vars

\* C28: no event of a watched path is lost, and while the watcher is not
\* closed every pending path is flushed, after which the store reflects
\* the file of the path.
C28_EventsEventuallyApplied ==
  /\ [][\A p \in MdPaths : (watching /\ watching' /\ disk'[p] # disk[p]) =>
          p \in pendingFiles']_vars
  /\ \A p \in MdPaths :
       (watching /\ p \in pendingFiles) ~>
         (~watching \/ (p \notin pendingFiles /\ Reflects(db, disk, p)))

(***************************************************************************)
(* Claims about reindexAll and indexSession.                               *)
(***************************************************************************)
\* the step of reindexAll that ends its scan
ReindexScanned == rx = "filesDeleted" /\ ret'.op = "reindexAll"

\* the step with which the pass that reindexAll awaits ends
ReindexEmbedded == pass.op = "reindexAll" /\ pass.pc = "await" /\ pass'.pc = "done"

TodoIds(ps) == {ps.todo[i].id : i \in 1..Len(ps.todo)}

\* what the scan of reindexAll leaves: the rows a scan of the tree writes
\* into an empty store, the full-text index of their chunks, no vector,
\* and the count of the text files
FreshScan ==
  /\ ContentOf(db') = ContentOf(indexMemory(EmptyDb, disk, NoFail).db)
  /\ db'.chunks_fts = {FtsEntry(c) : c \in db'.chunks}
  /\ \A f \in db'.files : disk[f.path] # NoFile
  /\ \A c \in db'.chunks : disk[c.path] # NoFile
  /\ db'.vectors = {}
  /\ ret'.indexed = Cardinality(TextFiles(disk))
  /\ ret'.warned = {}

\* C29 as stated: reindexAll leaves what a scan of the tree leaves in an
\* empty store, `indexed` is the number of text files, no row of an absent
\* file remains, and no vector remains when reindexAll returns.
C29_ReindexLeavesNoVector ==
  [][/\ ReindexScanned => FreshScan
     /\ ReindexEmbedded => db'.vectors = {}]_vars

\* C29: reindexAll leaves what a scan of the tree leaves in an empty
\* store, `indexed` is the number of text files, no row of an absent file
\* and no vector of the store before the call remains; the vectors present
\* when a reindexAll with embeddings returns are of chunks its pass took.
C29_ReindexAsFreshScan ==
  [][/\ ReindexScanned => (FreshScan /\ (pass' # pass => TodoIds(pass') = {c.id : c \in db'.chunks}))
     /\ ReindexEmbedded => {v.chunk_id : v \in db'.vectors} \subseteq TodoIds(pass)]_vars

\* a reindexAll with embeddings has returned: a store that held a chunk
\* was emptied and scanned, and a new chunk has its vector
C29_Witness ==
  /\ pass.op = "reindexAll"
  /\ pass.pc = "done"
  /\ pass.embedded > 0
  /\ \A c \in db.chunks : c.id > 1
  /\ \E v \in db.vectors : \E c \in db.chunks : c.id = v.chunk_id

\* the rows of every path but the transcript are left as they were
OtherPathsKept ==
  \A p \in MdPaths : FileRow(db', p) = FileRow(db, p) /\ ChunkRows(db', p) = ChunkRows(db, p)

\* the rows of the transcript are those of its content: one File row with
\* the hash, the chunks of the content under new ids, all of source
\* 'sessions'
TranscriptReplaced ==
  /\ \E f \in FileRow(db', SessionPath) :
       /\ FileRow(db', SessionPath) = {f}
       /\ f.hash = sha256(disk[SessionPath], 32)
       /\ f.source = "sessions"
  /\ HoldsChunksOf(db', SessionPath, disk[SessionPath])
  /\ \A c \in ChunkRows(db', SessionPath) : c.source = "sessions" /\ c.id > db.seq

Failing(dsk, warned) ==
  {p \in MdPaths : dsk[p] # NoFile /\ (isBinary(dsk[p]) \/ Warning(p, "read") \in warned)}

\* the tree without these files
Without(dsk, gone) == [p \in Paths |-> IF p \in gone THEN NoFile ELSE dsk[p]]

\* the rows of the other paths and the counters are those of the result r
AsIn(r, gone) ==
  /\ \A p \in MdPaths \ gone :
       /\ FileRow(db', p) = FileRow(r.db, p)
       /\ ChunkRows(db', p) = ChunkRows(r.db, p)
  /\ ret'.indexed = r.ret.indexed
  /\ ret'.skipped = r.ret.skipped

\* C31: a scan or a flush that meets an unreadable or a binary file returns
\* (the step exists), leaves for every other file the rows it leaves on the
\* tree without the failing file, and counts as indexed and skipped what it
\* counts on that tree.
C31_FailingFileAbsorbed ==
  [][(\A w \in ret'.warned : w.message = "read") =>
       /\ ret'.op = "index" =>
            AsIn(indexMemory(db, Without(disk, Failing(disk, ret'.warned)), NoFail),
                 Failing(disk, ret'.warned))
       /\ ret'.op = "flush" =>
            AsIn(processChanges(db, Without(disk, Failing(disk, ret'.warned)),
                                pendingFiles, NoFail),
                 Failing(disk, ret'.warned))]_vars

\* a scan could not read a.md, which comes first, and indexed b.md
C31_Witness ==
  /\ ret.op = "index"
  /\ ret.warned = {Warning("a.md", "read")}
  /\ ret.indexed = 1
  /\ ret.skipped = 0
  /\ FileRow(db, "b.md") # {}

(***************************************************************************)
(* Claims about the debounce timer.                                        *)
(***************************************************************************)
\* C32: at most one timer of the watcher is armed; an event leaves exactly
\* one, with the full delay; a flush runs only after a full delay without
\* an event, takes every pending path in its one step and leaves no timer.
C32_Debounced ==
  [][/\ Outstanding(timers') <= 1
     /\ (watching /\ disk' # disk) =>
          /\ timers'.handle = DebounceSeconds
          /\ Outstanding(timers') = 1
     /\ ret'.op = "flush" =>
          /\ timers.quiet = DebounceSeconds
          /\ pendingFiles' = {}
          /\ Outstanding(timers') = 0]_vars

\* two events arrived, each replaced the timer, and the flush ran after
\* two seconds without an event, with both paths pending
C32_Witness ==
  /\ ret.op = "flush"
  /\ ret.indexed = 2
  /\ timers.quiet = DebounceSeconds
  /\ Outstanding(timers) = 0

(***************************************************************************)
(* Claims about the boundaries of the chunks.                              *)
(***************************************************************************)
\* the lines first..last of the document are blank (or there is none)
BlankBetween(doc, first, last) == \A k \in first..last : IsBlank(doc[k])

\* the chunk inserted right before c ends on the line before line h, or
\* only blank lines lie between its end and h; before the first chunk all
\* lines are blank
FlushedBefore(rows, doc, c, h) ==
  IF c.id = 1 THEN BlankBetween(doc, 1, h - 1)
  ELSE \E p \in rows :
         /\ p.id = c.id - 1
         /\ \/ p.endLine = h - 1
            \/ IsBlank(doc[h - 1]) /\ BlankBetween(doc, p.endLine + 1, h - 1)

\* C33: for every heading line that is not the first line of its document
\* a chunk starts on that line, with the heading as its first line of text,
\* and what was pending was flushed up to the line before it; and no chunk
\* text holds a heading line anywhere but in its first line.
C33_HeadingStartsChunk ==
  \A f \in db.files :
    /\ \A h \in 2..Len(disk[f.path]) :
         IsHeading(disk[f.path][h]) =>
           \E c \in ChunkRows(db, f.path) :
             /\ c.startLine = h
             /\ c.text[1] = disk[f.path][h]
             /\ FlushedBefore(ChunkRows(db, f.path), disk[f.path], c, h)
    /\ \A c \in ChunkRows(db, f.path) :
         \A i \in 2..Len(c.text) : ~IsHeading(c.text[i])

\* a paragraph is followed by a heading with its own paragraph: the first
\* chunk ends on the line before the heading and the second starts on it
C33_Witness ==
  /\ ret.op = "index"
  /\ Len(disk["a.md"]) >= 4
  /\ ~IsHeading(disk["a.md"][1]) /\ ~IsBlank(disk["a.md"][2])
  /\ IsHeading(disk["a.md"][3])
  /\ \E c \in db.chunks : c.id = 1 /\ c.endLine = 2
  /\ \E c \in db.chunks : c.id = 2 /\ c.startLine = 3 /\ Len(c.text) > 1

\* ---------------------------------------------------------------------
\* C34: where a size-triggered split cuts

\* the blank lines findSplitPoint may choose among: 0-based indexes from
\* 30% of the pending lines to their end
BlankInWindow(lines) ==
  {i \in (Len(lines) * 3) \div 10 .. Len(lines) - 1 : IsBlank(lines[i + 1])}

\* findSplitPoint answers -1 exactly when the window has no blank line, and
\* otherwise a blank line of the window no farther from 60% than any other
SplitPointOk(lines) ==
  IF BlankInWindow(lines) = {} THEN findSplitPoint(lines) = -1
  ELSE /\ findSplitPoint(lines) \in BlankInWindow(lines)
       /\ \A i \in BlankInWindow(lines) :
            Abs(findSplitPoint(lines) - (Len(lines) * 6) \div 10)
              <= Abs(i - (Len(lines) * 6) \div 10)

\* the pending chunk after the first n lines of doc and the push of line n + 1
PendingAt(doc, n) ==
  PushLine(HeadingStep(ChunkerLoop(ChunkerStart, SubSeq(doc, 1, n), 1), doc[n + 1], n + 1),
           doc[n + 1])

\* the split branch on the pending chunk s: either nothing changes and the
\* chunk keeps growing, or one chunk is cut whose lines are the pending
\* lines up to a blank line of the window, and the lines after that blank
\* line stay pending
SplitOk(s) ==
  /\ SplitPointOk(s.currentLines)
  /\ \/ SplitStep(s) = s
     \/ /\ s.currentSize >= TARGET_CHUNK_SIZE
        /\ findSplitPoint(s.currentLines) \in BlankInWindow(s.currentLines)
        /\ SplitStep(s).chunks
             = s.chunks \o buildChunk(SubSeq(s.currentLines, 1, findSplitPoint(s.currentLines) + 1),
                                      s.currentStartLine,
                                      s.currentStartLine + findSplitPoint(s.currentLines))
        /\ \E ctx \in {<<>>, <<s.currentHeading>>} :
             SplitStep(s).currentLines
               = ctx \o SubSeq(s.currentLines, findSplitPoint(s.currentLines) + 2,
                               Len(s.currentLines))
  /\ (s.currentSize >= TARGET_CHUNK_SIZE /\ BlankInWindow(s.currentLines) = {})
       => SplitStep(s) = s

RECURSIVE CutsAtBreaks(_, _)
RECURSIVE BreakFollows(_, _, _)
\* Covers, with every text ending where the document has a blank line, a
\* heading line or its end
CutsAtBreaks(lines, texts) ==
  IF Len(texts) = 0 THEN IsWhitespaceOnly(lines)
  ELSE \/ BreakFollows(lines, TrimStart(texts[1]), Tail(texts))
       \/ /\ IsHeading(texts[1][1])
          /\ BreakFollows(lines, TrimStart(Tail(texts[1])), Tail(texts))

BreakFollows(lines, t, rest) ==
  IF Len(t) = 0 THEN CutsAtBreaks(lines, rest)
  ELSE /\ Len(TrimStart(lines)) >= Len(t)
       /\ SubSeq(TrimStart(lines), 1, Len(t)) = t
       /\ \/ Len(TrimStart(lines)) = Len(t)
          \/ IsBlank(TrimStart(lines)[Len(t) + 1])
          \/ IsHeading(TrimStart(lines)[Len(t) + 1])
       /\ CutsAtBreaks(SubSeq(TrimStart(lines), Len(t) + 1, Len(TrimStart(lines))), rest)

\* C34: a size-triggered split cuts the pending lines only at a blank line
\* between 30% and 100% of them, the one closest to 60%, and a pending
\* chunk that reached the target with no blank line there keeps growing;
\* so the text of every chunk of an indexed document ends where the
\* document has a blank line, a heading line or its end: no paragraph is
\* cut in the middle.
C34_SplitsOnlyAtBlankLines ==
  ret.op = "index" =>
    \A p \in MdPaths :
      (disk[p] # NoFile /\ \E c \in db.chunks : c.path = p) =>
        /\ \A n \in 0..(Len(disk[p]) - 1) : SplitOk(PendingAt(disk[p], n))
        /\ CutsAtBreaks(disk[p], TextsInOrder(db, p))

\* a document whose first chunk grew past the target over two adjacent long
\* lines and was cut at the blank line after them
C34_Witness ==
  /\ ret.op = "index"
  /\ Len(disk["a.md"]) >= 4
  /\ LineLength(disk["a.md"][1]) = 500 /\ LineLength(disk["a.md"][2]) = 500
  /\ IsBlank(disk["a.md"][3])
  /\ \E c \in db.chunks : c.id = 1 /\ c.path = "a.md" /\ Len(c.text) = 2
  /\ \E c \in db.chunks : c.id = 2 /\ c.path = "a.md"

\* ---------------------------------------------------------------------
\* C35: the span of a chunk row as its identity

\* the paragraphs of a document of sections
MaxParas == 7

RECURSIVE Paragraphs(_)
\* k long paragraphs with one blank line between them
Paragraphs(k) ==
  IF k = 0 THEN <<>>
  ELSE IF k = 1 THEN <<"lorem ipsum (500 characters)">>
  ELSE <<"lorem ipsum (500 characters)", "">> \o Paragraphs(k - 1)

\* a section: its heading, k paragraphs and, or not, a blank line at its end
Section(k, endBlank) ==
  <<"# Alpha">> \o Paragraphs(k) \o (IF endBlank THEN <<"">> ELSE <<>>)

\* the documents of one or two sections with at most MaxParas paragraphs
SectionDocs ==
  {Section(k, b) : k \in 0..MaxParas, b \in BOOLEAN}
    \cup {Section(k[1], b[1]) \o Section(k[2], b[2]) :
            k \in {kk \in (0..MaxParas) \X (0..MaxParas) : kk[1] + kk[2] <= MaxParas},
            b \in BOOLEAN \X BOOLEAN}

\* a tree whose one note is a document of sections, and the empty store
InitSections ==
  /\ \E doc \in SectionDocs : disk = [p \in Paths |-> IF p = "a.md" THEN doc ELSE NoFile]
  /\ db = EmptyDb
  /\ ret = NoCall
  /\ hybrid = NoHybrid
  /\ loader = NoLoader
  /\ warnings = 0
  /\ timers = NoTimers
  /\ provider = FALSE
  /\ watching = FALSE
  /\ pendingFiles = {}
  /\ rx = "idle"
  /\ pass = NoPass

SpecSections == InitSections /\ [][NextChunk]_vars

\* C35: two different chunk rows never have the same (path, startLine,
\* endLine), the triple by which hybridSearch finds the chunk of a lexical
\* result.
C35_SpanIdentifiesChunk ==
  \A c1 \in db.chunks : \A c2 \in db.chunks :
    (c1.path = c2.path /\ c1.startLine = c2.startLine /\ c1.endLine = c2.endLine)
      => c1.id = c2.id

\* ---------------------------------------------------------------------
\* C36: chunk ids and the vectors computed for them

\* the chunk rows a step inserts get ids above every id assigned before,
\* and a row that keeps its id keeps its text
IdsNeverReused(d1, d2) ==
  /\ d2.seq >= d1.seq
  /\ \A c \in d2.chunks : c.id <= d2.seq
  /\ \A c \in d2.chunks \ d1.chunks : c.id > d1.seq
  /\ \A c \in d2.chunks : \A k \in d1.chunks : c.id = k.id => c.text = k.text

\* every vector row is the embedding of the text of the chunk row of its id
VectorsOfOwnText(d) ==
  \A v \in d.vectors : \E c \in d.chunks : c.id = v.chunk_id /\ v.embedding = Embedding(c.text)

\* C36: a chunk id is never reused: a chunk inserted after any deletion
\* gets an id greater than every id ever assigned, so a Vector row is only
\* ever associated with the chunk whose text it was computed from, also
\* when an embedding batch completes after the file was re-indexed.
C36_ChunkIdsNeverReused ==
  [][IdsNeverReused(db, db') /\ VectorsOfOwnText(db')]_vars

\* a batch of a pass that read its chunks before a file was indexed again
\* was refused, and the chunks of the file have later ids
C36_Witness ==
  /\ pass.pc = "done"
  /\ "sqlite" \in pass.warned
  /\ db.chunks # {}
  /\ \A c \in db.chunks : c.id > 1
  /\ VectorsOfOwnText(db)

\* ---------------------------------------------------------------------
\* C37: the owning file of a chunk

\* C37: the path of every Chunk row is the path of a File row with the
\* same source, in every state: after a scan, a removal, a flush,
\* indexSession and between and after the statements of reindexAll.
C37_ChunkHasOwningFile ==
  \A c \in db.chunks : \E f \in db.files : f.path = c.path /\ f.source = c.source

\* chunks of a note and of a transcript in a store where rows were deleted
\* before
C37_Witness ==
  /\ \E c \in db.chunks : c.source = "memory"
  /\ \E c \in db.chunks : c.source = "sessions"
  /\ db.seq > Cardinality(db.chunks)
  /\ C37_ChunkHasOwningFile

\* ---------------------------------------------------------------------
\* C38: a full scan and the sessions partition

\* the File and Chunk rows of a source
RowsOfSource(d, source) ==
  [files |-> {f \in d.files : f.source = source},
   chunks |-> {c \in d.chunks : c.source = source}]

\* the File rows of source 'memory' of d1 whose path has no row in d2
MemoryRowsGone(d1, d2) ==
  {f \in d1.files : f.source = "memory" /\ \A g \in d2.files : g.path # f.path}

\* C38: a full scan of the memory tree leaves every row of the sessions
\* partition unchanged: the File and Chunk rows with source 'sessions' are
\* neither removed nor modified, although the scan does not observe their
\* paths, and `removed` counts the memory files that went, nothing else.
C38_ScanKeepsSessions ==
  [][ret'.op = "index" =>
       /\ RowsOfSource(db', "sessions") = RowsOfSource(db, "sessions")
       /\ ret'.removed = Cardinality(MemoryRowsGone(db, db'))]_vars

\* a full scan that removed a note returned, and the transcript is indexed
C38_Witness ==
  /\ ret.op = "index"
  /\ ret.removed = 1
  /\ RowsOfSource(db, "sessions").files # {}
  /\ RowsOfSource(db, "sessions").chunks # {}

\* ---------------------------------------------------------------------
\* C39: a full scan and the file it cannot read

\* the files of the tree whose indexFile transaction failed
Refused(warned) == {p \in MdPaths : Warning(p, "sqlite") \in warned}

\* the files of the tree
OnDisk(dsk) == {p \in MdPaths : dsk[p] # NoFile}

\* C39: in a full scan a path that is on disk but cannot be read, or is
\* binary, keeps the File and Chunk rows it had before the scan: it was
\* recorded as observed before the read, so the sweep does not remove its
\* rows, and it is counted in none of `removed`, `indexed` and `skipped`.
C39_UnreadableKeepsRows ==
  [][ret'.op = "index" =>
       /\ \A p \in Failing(disk, ret'.warned) : SameRows(db, db', p)
       /\ ret'.indexed + ret'.skipped
            = Cardinality((OnDisk(disk) \ Failing(disk, ret'.warned)) \ Refused(ret'.warned))
       /\ ret'.removed
            = Cardinality({f \in db.files : f.source = "memory" /\ f.path \notin OnDisk(disk)})]_vars

\* a full scan returned that could not read a.md or found it binary, and
\* the store holds the rows of another content of a.md
C39_Witness ==
  /\ ret.op = "index"
  /\ "a.md" \in Failing(disk, ret.warned)
  /\ FileRow(db, "a.md") # {}
  /\ ChunkRows(db, "a.md") # {}
  /\ ~RowHasHash(db, "a.md", disk["a.md"])
  /\ ret.removed = 0

\* ---------------------------------------------------------------------
\* C40: the load of the model that failed

\* the step of caller c when the load has been rejected: a call that asks
\* for the model waits for the rejected promise and ends with its failure;
\* the only call that returns at once is embedBatch of no texts
RejectedFor(l1, l2, c) ==
  /\ l2.pc[c] \in {"idle", "load"}
  /\ l2.pc[c] = "load" => l2.awaits[c] = l1.started
  /\ l2.out[c] # l1.out[c] => l2.out[c] \in {"none", "empty", "error"}
  /\ (l1.pc[c] = "load" /\ l2.pc[c] = "idle") => l2.out[c] = "error"
  /\ (l1.pc[c] = "idle" /\ l2.pc[c] = "idle" /\ l2.out[c] # l1.out[c]) => l2.out[c] = "empty"

====
